---- MODULE Spec2Model ----
(***************************************************************************)
(* Model of the areuok desktop backend (src-tauri/src): the per-device     *)
(* configuration record (device identity + supervision ledger) kept in     *)
(* device_config.json, and the command handlers that read-modify-write it. *)
(* commands.rs and lib.rs hold two copies of the same handlers; the ledger *)
(* handlers are modelled from commands.rs (lib.rs is line-for-line the     *)
(* same logic for them).                                                   *)
(*                                                                         *)
(* Every machine has its own configuration file.  An Option<T> of the      *)
(* source is a sequence of length 0 (None) or 1 (Some).  A Uuid::new_v4()  *)
(* is a number never handed out before (nextUuid); a Utc::now() is any     *)
(* instant the environment offers (the wall clock is not monotonic).  A    *)
(* storage call either succeeds or fails leaving the file as it was.       *)
(*                                                                         *)
(* Spec is one device ("A") running every ledger command in any order,     *)
(* with storage failures, under a clock that stands still (no formula      *)
(* checked under it reads a timestamp) and a name that is never changed.   *)
(* SpecNames is the same device with update_device_name, for the name      *)
(* snapshots.  SpecTwoDevices is two devices, each with its own file,      *)
(* that know each other's device ids and request ids.  SpecRemove is the   *)
(* device making and removing relationships, called with any id it was     *)
(* ever given.                                                             *)
(*                                                                         *)
(* The check-in record is data.json.  signin exists twice: in commands.rs  *)
(* (SigninOn) and in lib.rs (LibSigninOn), the crate root, whose handlers  *)
(* are the ones run() registers.  A signin reads the clock twice: for the  *)
(* date it stamps the record with, and again in should_continue_streak.    *)
(* SpecSignin and SpecLibSignin run the signin and signout of either file  *)
(* from no record, the clock at any day of the window when a call starts;  *)
(* SpecSigninSeeded starts commands.rs signin from any record a data.json  *)
(* may hold.  SpecBothSignins runs the two signins over one data.json.     *)
(*                                                                         *)
(* The views (get_pending_supervision_requests, get_supervised_devices,    *)
(* get_supervisor_status) load the record and save nothing.  SpecViews and *)
(* SpecStatus run them from no file and from a file that holds entries of  *)
(* another supervisor; SpecIdentity runs every command that touches        *)
(* device_config.json; SpecAcceptOnce keeps a record of the accepts that   *)
(* returned Ok.  All of these are sequential: a command runs from its load *)
(* to its save before the next starts.  SpecInterleaved is not: two        *)
(* threads of one device are inside handlers at once, and a step is one    *)
(* storage access of one of them.  SpecOverlap does the same for           *)
(* accept_supervision_request and get_supervisor_status.  SpecInstants is  *)
(* the sequential device with a clock that moves between the two readings  *)
(* of one acceptance; SpecSignout is signin and signout on a device that   *)
(* has a configuration record and a ledger.                                *)
(***************************************************************************)
EXTENDS Integers, Sequences, FiniteSets, TLC

\* ------------------------------------------------------------------ bounds
\* The most requests one ledger is let to hold (requests are never deleted, and a
\* relationship needs a request of its own, so this bounds the fresh ids as well).
MaxRequests == 2

Machines == {"A", "B"}
Local == {"A"}
NameInputs == {"alice"}
ImeiInputs == {"imei-1"}
IoOutcomes == {"ok", "load_err", "save_err"}
NoFailure == {"ok"}
Frozen == {0}
\* An id no Uuid::new_v4() ever returned: what a caller passes as an unknown id.
UnknownId == 0

\* The clock: Utc::now() read as a number of days since EpochDate, from 0 to
\* MaxDay when a command starts.
MaxDay == 3
Days == 0 .. MaxDay
\* The streak at which the model stops signing in.
MaxStreak == 3
SigninNames == {"alice", "bob"}

\* The fresh ids after which the threads of SpecInterleaved begin no further
\* send_supervision_request (a request lost to an overwrite leaves room for
\* another, so the ledger's size does not bound them).
MaxIds == 3

\* The requests the ledger of SpecIdentity is let to hold.
MaxIdentityRequests == 1

\* ------------------------------------------------------------------ Option
None == <<>>
Some(x) == <<x>>

\* ------------------------------------------------------------------ models.rs
Signin == "signin"
Supervisor == "supervisor"
DeviceMode == {Signin, Supervisor}

Pending == "pending"
Accepted == "accepted"
Rejected == "rejected"
Cancelled == "cancelled"
SupervisionRequestStatus == {Pending, Accepted, Rejected, Cancelled}

\* format!("设备-{}", &device_id[..8])
DefaultDeviceName(device_id) == "dev-" \o ToString(device_id)

DeviceConfigNew(device_id, created_at) ==
    [device |-> [device_id |-> device_id,
                 device_name |-> DefaultDeviceName(device_id),
                 imei |-> None,
                 mode |-> Signin,
                 created_at |-> created_at],
     supervision_requests |-> <<>>,
     supervision_relationships |-> <<>>]

\* ------------------------------------------------------------------ errors
Ok == "Ok"
ErrIo == "io error"
ErrNotSupervisor == "Only supervisor devices can send supervision requests"
ErrRequestNotFound == "Request not found"
ErrNotFoundOrProcessed == "Request not found or already processed"
ErrWrongTarget == "This request is not for this device"
ErrRelationshipNotFound == "Relationship not found"

\* ------------------------------------------------------------------ state
VARIABLES
    stored,     \* stored[m]: Option<DeviceConfig>, the device_config.json of machine m
    nextUuid,   \* the next value Uuid::new_v4() returns
    last,       \* the last command: who, what, and what it returned
    signin_data, \* signin_data[m]: Option<SigninData>, the data.json of machine m
    checkins,   \* the days on which SigninOn returned Ok since there was no data.json
    calls,      \* calls[p]: the invocation thread p is in the middle of (SpecInterleaved)
    accepts     \* the accepts that returned Ok, in order: request ids (SpecAcceptOnce),
                \* request id and returned relationship (SpecOverlap)

vars == <<stored, nextUuid, last, signin_data, checkins, calls, accepts>>

\* The threads that run the handlers of one device at the same time, and a
\* thread that is in no handler.
Threads == {"t1", "t2"}
Idle == [pc |-> "idle"]

NoCommand ==
    [op |-> "none", machine |-> "A", arg |-> UnknownId, result |-> Ok, ret |-> None]

Init ==
    /\ stored = [m \in Machines |-> None]
    /\ nextUuid = 1
    /\ last = NoCommand
    /\ signin_data = [m \in Machines |-> None]
    /\ checkins = None
    /\ calls = [p \in Threads |-> Idle]
    /\ accepts = <<>>

\* ------------------------------------------------------------------ helpers
\* iter().find(|r| pred): index of the first element satisfying pred, 0 if none.
FirstIndex(S) == IF S = {} THEN 0 ELSE CHOOSE i \in S : \A j \in S : i <= j

find_request(config, request_id) ==
    FirstIndex({i \in 1 .. Len(config.supervision_requests) :
                   config.supervision_requests[i].request_id = request_id})

\* Mutant: the status is not looked at.
find_request_of_any_status(config, request_id) ==
    LET i == find_request(config, request_id)
    IN IF i = 0 THEN None ELSE Some(config.supervision_requests[i])

find_pending_request(config, request_id) ==
    LET i == FirstIndex({i \in 1 .. Len(config.supervision_requests) :
                            /\ config.supervision_requests[i].request_id = request_id
                            /\ config.supervision_requests[i].status = Pending})
    IN IF i = 0 THEN None ELSE Some(config.supervision_requests[i])

validate_request_target(config, request) ==
    request.target_device_id = config.device.device_id

create_relationship_from_request(config, request, uuid, t1, t2) ==
    [relationship_id |-> uuid,
     supervisor_device_id |-> request.supervisor_device_id,
     supervisor_device_name |-> request.supervisor_device_name,
     supervised_device_id |-> config.device.device_id,
     supervised_device_name |-> config.device.device_name,
     established_at |-> t1,
     last_sync_at |-> t2]

\* Mutant: the status is left as it is.
update_request_status_skipped(config, request_id, status) == config

update_request_status(config, request_id, status) ==
    LET i == find_request(config, request_id)
    IN IF i = 0 THEN config
       ELSE [config EXCEPT !.supervision_requests[i].status = status]

\* retain(|r| pred): the subsequence of the elements satisfying pred, in order.
RECURSIVE retain_other(_, _)
retain_other(rels, relationship_id) ==
    IF rels = <<>> THEN <<>>
    ELSE IF Head(rels).relationship_id # relationship_id
         THEN <<Head(rels)>> \o retain_other(Tail(rels), relationship_id)
         ELSE retain_other(Tail(rels), relationship_id)

\* ------------------------------------------------------------------ handlers
\* A handler, run on the configuration load_or_create_device_config returned:
\* result is what it returns, ret the Ok value, write the configuration it
\* passes to save_device_config (None: it saves nothing), uuids the number of
\* fresh ids it drew.
Outcome(result, ret, write, uuids) ==
    [result |-> result, ret |-> ret, write |-> write, uuids |-> uuids]

get_device_config(config) == Outcome(Ok, Some(config), None, 0)

set_device_mode(config, mode) ==
    LET c == [config EXCEPT !.device.mode = mode]
    IN Outcome(Ok, Some(c), Some(c), 0)

\* update_device_name as it would be if the names copied into the ledger
\* followed the device's name.
update_device_name_in_ledger(config, name) ==
    LET c == [config EXCEPT
                 !.device.device_name = name,
                 !.supervision_requests =
                     [i \in DOMAIN @ |-> [@[i] EXCEPT !.supervisor_device_name = name]],
                 !.supervision_relationships =
                     [i \in DOMAIN @ |-> [@[i] EXCEPT !.supervised_device_name = name]]]
    IN Outcome(Ok, Some(c), Some(c), 0)

update_device_name(config, name) ==
    LET c == [config EXCEPT !.device.device_name = name]
    IN Outcome(Ok, Some(c), Some(c), 0)

set_device_imei(config, imei) ==
    LET c == [config EXCEPT !.device.imei = Some(imei)]
    IN Outcome(Ok, Some(c), Some(c), 0)

\* Mutant: the mode is not checked.
send_without_mode_check(config, target_device_id, uuid, t) ==
    LET request == [request_id |-> uuid,
                    supervisor_device_id |-> config.device.device_id,
                    supervisor_device_name |-> config.device.device_name,
                    target_device_id |-> target_device_id,
                    status |-> Pending,
                    created_at |-> t]
    IN Outcome(Ok, Some(request),
               Some([config EXCEPT !.supervision_requests = Append(@, request)]), 1)

\* Mutant: a second Pending request to the same target is refused.
send_refusing_duplicates(config, target_device_id, uuid, t) ==
    IF config.device.mode # Supervisor
    THEN Outcome(ErrNotSupervisor, None, None, 0)
    ELSE IF \E i \in 1 .. Len(config.supervision_requests) :
                /\ config.supervision_requests[i].target_device_id = target_device_id
                /\ config.supervision_requests[i].status = Pending
    THEN Outcome("Request already pending", None, None, 0)
    ELSE send_without_mode_check(config, target_device_id, uuid, t)

\* send_supervision_request as it would be if it stored the request under the
\* target's id, as the target's own ledger would hold it.
send_stored_for_target(config, target_device_id, uuid, t) ==
    IF config.device.mode # Supervisor
    THEN Outcome(ErrNotSupervisor, None, None, 0)
    ELSE LET request == [request_id |-> uuid,
                         supervisor_device_id |-> target_device_id,
                         supervisor_device_name |-> config.device.device_name,
                         target_device_id |-> config.device.device_id,
                         status |-> Pending,
                         created_at |-> t]
             c == [config EXCEPT !.supervision_requests = Append(@, request)]
         IN Outcome(Ok, Some(request), Some(c), 1)

send_supervision_request(config, target_device_id, uuid, t) ==
    IF config.device.mode # Supervisor
    THEN Outcome(ErrNotSupervisor, None, None, 0)
    ELSE LET request == [request_id |-> uuid,
                         supervisor_device_id |-> config.device.device_id,
                         supervisor_device_name |-> config.device.device_name,
                         target_device_id |-> target_device_id,
                         status |-> Pending,
                         created_at |-> t]
             c == [config EXCEPT !.supervision_requests = Append(@, request)]
         IN Outcome(Ok, Some(request), Some(c), 1)

\* Mutant: the request is found and saved with the status it had.
cancel_leaving_status(config, request_id) ==
    IF find_request(config, request_id) = 0
    THEN Outcome(ErrRequestNotFound, None, None, 0)
    ELSE Outcome(Ok, None, Some(config), 0)

\* Mutant: only a Pending request is cancelled.
cancel_pending_only(config, request_id) ==
    LET i == find_request(config, request_id)
    IN IF i = 0 \/ find_pending_request(config, request_id) = None
       THEN Outcome(ErrRequestNotFound, None, None, 0)
       ELSE Outcome(Ok, None,
                    Some([config EXCEPT !.supervision_requests[i].status = Cancelled]), 0)

cancel_supervision_request(config, request_id) ==
    LET i == find_request(config, request_id)
    IN IF i = 0
       THEN Outcome(ErrRequestNotFound, None, None, 0)
       ELSE Outcome(Ok, None,
                    Some([config EXCEPT !.supervision_requests[i].status = Cancelled]), 0)

accept_supervision_request(config, request_id, uuid, t1, t2) ==
    LET found == find_pending_request(config, request_id)
    IN IF found = None
       THEN Outcome(ErrNotFoundOrProcessed, None, None, 0)
       ELSE IF ~validate_request_target(config, found[1])
       THEN Outcome(ErrWrongTarget, None, None, 0)
       ELSE LET relationship ==
                    create_relationship_from_request(config, found[1], uuid, t1, t2)
                pushed == [config EXCEPT
                              !.supervision_relationships = Append(@, relationship)]
            IN Outcome(Ok, Some(relationship),
                       Some(update_request_status(pushed, request_id, Accepted)), 1)

\* Mutant: the target is not checked.
reject_without_target_check(config, request_id) ==
    LET i == find_request(config, request_id)
    IN IF i = 0
       THEN Outcome(ErrRequestNotFound, None, None, 0)
       ELSE Outcome(Ok, None,
                    Some([config EXCEPT !.supervision_requests[i].status = Rejected]), 0)

\* Mutant: the status is set and saved before the target is checked.
reject_saving_before_target_check(config, request_id) ==
    LET i == find_request(config, request_id)
    IN IF i = 0
       THEN Outcome(ErrRequestNotFound, None, None, 0)
       ELSE IF config.supervision_requests[i].target_device_id # config.device.device_id
       THEN Outcome(ErrWrongTarget, None,
                    Some([config EXCEPT !.supervision_requests[i].status = Rejected]), 0)
       ELSE Outcome(Ok, None,
                    Some([config EXCEPT !.supervision_requests[i].status = Rejected]), 0)

reject_supervision_request(config, request_id) ==
    LET i == find_request(config, request_id)
    IN IF i = 0
       THEN Outcome(ErrRequestNotFound, None, None, 0)
       ELSE IF config.supervision_requests[i].target_device_id # config.device.device_id
       THEN Outcome(ErrWrongTarget, None, None, 0)
       ELSE Outcome(Ok, None,
                    Some([config EXCEPT !.supervision_requests[i].status = Rejected]), 0)

\* Mutant: the lengths before and after retain are not compared.
remove_without_length_check(config, relationship_id) ==
    LET kept == retain_other(config.supervision_relationships, relationship_id)
    IN Outcome(Ok, None, Some([config EXCEPT !.supervision_relationships = kept]), 0)

remove_supervision_relationship(config, relationship_id) ==
    LET kept == retain_other(config.supervision_relationships, relationship_id)
    IN IF Len(kept) < Len(config.supervision_relationships)
       THEN Outcome(Ok, None, Some([config EXCEPT !.supervision_relationships = kept]), 0)
       ELSE Outcome(ErrRelationshipNotFound, None, None, 0)

\* ------------------------------------------------------------------ storage.rs
\* load_or_create_device_config on machine m: the file's configuration, or, when
\* there is no file, a new one with a fresh device_id, saved before it is returned.
\* Mutant: the file is not looked for; every call makes a new record.
load_or_create_always_new(m, io, t) ==
    [ok |-> io # "load_err", config |-> DeviceConfigNew(nextUuid, t), created |-> TRUE]

load_or_create_device_config(m, io, t) ==
    IF stored[m] # None
    THEN [ok |-> io # "load_err", config |-> stored[m][1], created |-> FALSE]
    ELSE [ok |-> io # "load_err", config |-> DeviceConfigNew(nextUuid, t),
          created |-> TRUE]

\* What save_device_config(config) leaves in the file: the whole record.
save_device_config(config) == Some(config)

\* The next fresh id after load_or_create_device_config has drawn its own.
next_uuid_after(ld) == IF ld.created THEN nextUuid + 1 ELSE nextUuid

\* One command on machine m, start to finish: ld is what
\* load_or_create_device_config returned (having saved the record it created),
\* out what the handler made of ld.config, io whether its save_device_config
\* fails.  The value is the state the command leaves.  A fresh id that ends up
\* in no file is not counted as handed out.
Command(m, op, arg, io, ld, out) ==
    IF ~ld.ok
    THEN [stored |-> stored,
          nextUuid |-> nextUuid,
          last |-> [op |-> op, machine |-> m, arg |-> arg, result |-> ErrIo,
                    ret |-> None]]
    ELSE LET saveFails == out.write # None /\ io = "save_err"
             written == out.write # None /\ io # "save_err"
         IN [stored |-> [stored EXCEPT
                            ![m] = IF written THEN save_device_config(out.write[1])
                                   ELSE save_device_config(ld.config)],
             nextUuid |-> IF written THEN next_uuid_after(ld) + out.uuids
                          ELSE next_uuid_after(ld),
             last |-> [op |-> op, machine |-> m, arg |-> arg,
                       result |-> IF saveFails THEN ErrIo ELSE out.result,
                       ret |-> IF saveFails THEN None ELSE out.ret]]

\* ------------------------------------------------------------------ inputs
\* The ids a caller can know: those some file holds, and one that none holds.
Configs == {stored[m][1] : m \in {x \in Machines : stored[x] # None}}
DeviceIds == {c.device.device_id : c \in Configs}
RequestIds ==
    UNION {{c.supervision_requests[i].request_id :
               i \in 1 .. Len(c.supervision_requests)} : c \in Configs}
RelationshipIds ==
    UNION {{c.supervision_relationships[i].relationship_id :
               i \in 1 .. Len(c.supervision_relationships)} : c \in Configs}

\* Every id handed out so far: a caller may hold on to an id (of a relationship
\* since removed, say) that no file holds any more.
IssuedIds == 1 .. nextUuid - 1

\* The model stops a ledger's growth at MaxRequests requests.
HasRoom(m) ==
    IF stored[m] = None THEN TRUE
    ELSE Len(stored[m][1].supervision_requests) < MaxRequests

\* ------------------------------------------------------------------ commands
\* Each command on the machines M, with the storage outcomes IO and the clock
\* readings T.
GetDeviceConfigOn(M, IO, T) ==
    \E m \in M, io \in IO, t \in T :
        LET ld == load_or_create_device_config(m, io, t)
            out == get_device_config(ld.config)
        IN LET e == Command(m, "get_device_config", UnknownId, io, ld, out)
           IN /\ stored' = e.stored
              /\ nextUuid' = e.nextUuid
              /\ last' = e.last
              /\ UNCHANGED <<signin_data, checkins, calls, accepts>>

SetDeviceModeOn(M, IO, T) ==
    \E m \in M, io \in IO, t \in T, mode \in DeviceMode :
        LET ld == load_or_create_device_config(m, io, t)
            out == set_device_mode(ld.config, mode)
        IN LET e == Command(m, "set_device_mode", mode, io, ld, out)
           IN /\ stored' = e.stored
              /\ nextUuid' = e.nextUuid
              /\ last' = e.last
              /\ UNCHANGED <<signin_data, checkins, calls, accepts>>

UpdateDeviceNameOn(M, IO, T) ==
    \E m \in M, io \in IO, t \in T, name \in NameInputs :
        LET ld == load_or_create_device_config(m, io, t)
            out == update_device_name(ld.config, name)
        IN LET e == Command(m, "update_device_name", name, io, ld, out)
           IN /\ stored' = e.stored
              /\ nextUuid' = e.nextUuid
              /\ last' = e.last
              /\ UNCHANGED <<signin_data, checkins, calls, accepts>>

SetDeviceImeiOn(M, IO, T) ==
    \E m \in M, io \in IO, t \in T, imei \in ImeiInputs :
        LET ld == load_or_create_device_config(m, io, t)
            out == set_device_imei(ld.config, imei)
        IN LET e == Command(m, "set_device_imei", imei, io, ld, out)
           IN /\ stored' = e.stored
              /\ nextUuid' = e.nextUuid
              /\ last' = e.last
              /\ UNCHANGED <<signin_data, checkins, calls, accepts>>

SendSupervisionRequestOn(M, IO, T) ==
    \E m \in M, io \in IO, t \in T, t1 \in T, target \in DeviceIds \cup {UnknownId} :
        /\ HasRoom(m)
        /\ LET ld == load_or_create_device_config(m, io, t)
               out == send_supervision_request(ld.config, target, next_uuid_after(ld), t1)
           IN LET e == Command(m, "send_supervision_request", target, io, ld, out)
              IN /\ stored' = e.stored
                 /\ nextUuid' = e.nextUuid
                 /\ last' = e.last
                 /\ UNCHANGED <<signin_data, checkins, calls, accepts>>

CancelSupervisionRequestOn(M, IO, T) ==
    \E m \in M, io \in IO, t \in T, request_id \in RequestIds \cup {UnknownId} :
        LET ld == load_or_create_device_config(m, io, t)
            out == cancel_supervision_request(ld.config, request_id)
        IN LET e == Command(m, "cancel_supervision_request", request_id, io, ld, out)
           IN /\ stored' = e.stored
              /\ nextUuid' = e.nextUuid
              /\ last' = e.last
              /\ UNCHANGED <<signin_data, checkins, calls, accepts>>

AcceptSupervisionRequestOn(M, IO, T) ==
    \E m \in M, io \in IO, t \in T, t1 \in T, t2 \in T,
       request_id \in RequestIds \cup {UnknownId} :
        LET ld == load_or_create_device_config(m, io, t)
            out == accept_supervision_request(ld.config, request_id, next_uuid_after(ld), t1, t2)
        IN LET e == Command(m, "accept_supervision_request", request_id, io, ld, out)
           IN /\ stored' = e.stored
              /\ nextUuid' = e.nextUuid
              /\ last' = e.last
              /\ UNCHANGED <<signin_data, checkins, calls, accepts>>

RejectSupervisionRequestOn(M, IO, T) ==
    \E m \in M, io \in IO, t \in T, request_id \in RequestIds \cup {UnknownId} :
        LET ld == load_or_create_device_config(m, io, t)
            out == reject_supervision_request(ld.config, request_id)
        IN LET e == Command(m, "reject_supervision_request", request_id, io, ld, out)
           IN /\ stored' = e.stored
              /\ nextUuid' = e.nextUuid
              /\ last' = e.last
              /\ UNCHANGED <<signin_data, checkins, calls, accepts>>

RemoveSupervisionRelationshipOn(M, IO, T, IDS) ==
    \E m \in M, io \in IO, t \in T, relationship_id \in IDS :
        LET ld == load_or_create_device_config(m, io, t)
            out == remove_supervision_relationship(ld.config, relationship_id)
        IN LET e == Command(m, "remove_supervision_relationship", relationship_id, io, ld, out)
           IN /\ stored' = e.stored
              /\ nextUuid' = e.nextUuid
              /\ last' = e.last
              /\ UNCHANGED <<signin_data, checkins, calls, accepts>>

\* ------------------------------------------------------------------ Spec
GetDeviceConfig == GetDeviceConfigOn(Local, IoOutcomes, Frozen)
SetDeviceMode == SetDeviceModeOn(Local, IoOutcomes, Frozen)
UpdateDeviceName == UpdateDeviceNameOn(Local, IoOutcomes, Frozen)
SendSupervisionRequest == SendSupervisionRequestOn(Local, IoOutcomes, Frozen)
CancelSupervisionRequest == CancelSupervisionRequestOn(Local, IoOutcomes, Frozen)
AcceptSupervisionRequest == AcceptSupervisionRequestOn(Local, IoOutcomes, Frozen)
RejectSupervisionRequest == RejectSupervisionRequestOn(Local, IoOutcomes, Frozen)
RemoveSupervisionRelationship ==
    RemoveSupervisionRelationshipOn(Local, IoOutcomes, Frozen,
                                    RelationshipIds \cup {UnknownId})

Next ==
    \/ GetDeviceConfig
    \/ SetDeviceMode
    \/ SendSupervisionRequest
    \/ CancelSupervisionRequest
    \/ AcceptSupervisionRequest
    \/ RejectSupervisionRequest
    \/ RemoveSupervisionRelationship

Spec == Init /\ [][Next]_vars

\* ------------------------------------------------------------------ SpecNames
NextNames ==
    \/ GetDeviceConfig
    \/ SetDeviceMode
    \/ UpdateDeviceName
    \/ SendSupervisionRequest
    \/ AcceptSupervisionRequest
    \/ CancelSupervisionRequest

SpecNames == Init /\ [][NextNames]_vars

\* ------------------------------------------------------------------ SpecRemove
\* Device A making relationships and removing them, the caller passing any id
\* it was ever given.
RemoveIssued ==
    RemoveSupervisionRelationshipOn(Local, IoOutcomes, Frozen,
                                    IssuedIds \cup {UnknownId})

NextRemove ==
    \/ SetDeviceMode
    \/ SendSupervisionRequest
    \/ AcceptSupervisionRequest
    \/ RemoveIssued

SpecRemove == Init /\ [][NextRemove]_vars

\* ------------------------------------------------------------------ SpecTwoDevices
\* A is the supervisor's machine, B the machine of the device it wants to
\* supervise; storage never fails.
Supervising == {"A"}
Targeted == {"B"}
FirstAccess == GetDeviceConfigOn(Machines, NoFailure, Frozen)
AnySetDeviceMode == SetDeviceModeOn(Machines, NoFailure, Frozen)
SupervisorSends == SendSupervisionRequestOn(Supervising, NoFailure, Frozen)
SupervisorCancels == CancelSupervisionRequestOn(Supervising, NoFailure, Frozen)
TargetAccepts == AcceptSupervisionRequestOn(Targeted, NoFailure, Frozen)
TargetRejects == RejectSupervisionRequestOn(Targeted, NoFailure, Frozen)

NextTwoDevices ==
    \/ FirstAccess
    \/ AnySetDeviceMode
    \/ SupervisorSends
    \/ SupervisorCancels
    \/ TargetAccepts
    \/ TargetRejects

SpecTwoDevices == Init /\ [][NextTwoDevices]_vars

\* ------------------------------------------------------------------ dates
\* A NaiveDate is a record [y, m, d].  A date string "%Y-%m-%d" is the tuple of
\* its three numeric fields; any other tuple is a string that is no date.
EpochDate == [y |-> 2024, m |-> 2, d |-> 27]

IsLeapYear(y) == (y % 4 = 0 /\ y % 100 # 0) \/ y % 400 = 0

DaysInMonth(y, m) ==
    IF m = 2 THEN (IF IsLeapYear(y) THEN 29 ELSE 28)
    ELSE IF m \in {4, 6, 9, 11} THEN 30 ELSE 31

\* date + Duration::days(1)
succ_date(date) ==
    IF date.d < DaysInMonth(date.y, date.m) THEN [date EXCEPT !.d = @ + 1]
    ELSE IF date.m < 12 THEN [y |-> date.y, m |-> date.m + 1, d |-> 1]
    ELSE [y |-> date.y + 1, m |-> 1, d |-> 1]

\* date - Duration::days(1)
pred_date(date) ==
    IF date.d > 1 THEN [date EXCEPT !.d = @ - 1]
    ELSE IF date.m > 1
    THEN [y |-> date.y, m |-> date.m - 1, d |-> DaysInMonth(date.y, date.m - 1)]
    ELSE [y |-> date.y - 1, m |-> 12, d |-> 31]

\* Utc::now().date_naive(), the clock reading now days after EpochDate.
RECURSIVE date_naive(_)
date_naive(now) == IF now = 0 THEN EpochDate ELSE succ_date(date_naive(now - 1))

\* .format("%Y-%m-%d").to_string()
format_date(date) == <<date.y, date.m, date.d>>

\* NaiveDate::parse_from_str(s, "%Y-%m-%d"): Err (None here) for what is no date.
parse_from_str(s) ==
    IF /\ Len(s) = 3
       /\ s[2] \in 1 .. 12
       /\ s[3] >= 1
       /\ s[3] <= DaysInMonth(s[1], s[2])
    THEN Some([y |-> s[1], m |-> s[2], d |-> s[3]])
    ELSE None

get_today_date(now) == format_date(date_naive(now))

\* The readings a second Utc::now() of the same call can give after a first
\* reading t: the same day, or the next when midnight falls between the two.
LaterReadings(t) == {t, t + 1}

\* ------------------------------------------------------------------ check-in
\* Mutant: any record continues the streak, whatever its date.
should_continue_any_gap(data, now) == data # None

\* should_continue_streak reads the clock itself: now is that reading.
should_continue_streak(data, now) ==
    IF data = None THEN FALSE
    ELSE LET last_date == parse_from_str(data[1].last_signin_date)
         IN IF last_date = None THEN FALSE
            ELSE LET today == date_naive(now)
                     yesterday == pred_date(today)
                 IN last_date[1] = yesterday

\* signin_history.contains(&today)
Contains(history, today) == \E i \in 1 .. Len(history) : history[i] = today

\* if !signin_history.contains(&today) { signin_history.push(today) }
push_if_absent(history, today) ==
    IF Contains(history, today) THEN history ELSE Append(history, today)

\* Mutant: the history is kept when the streak starts anew.
calculate_keeping_history(saved_data, name, today, now) ==
    IF saved_data # None /\ saved_data[1].last_signin_date = today
    THEN saved_data[1]
    ELSE LET continue == saved_data # None /\ should_continue_streak(saved_data, now)
             new_streak == IF continue THEN saved_data[1].streak + 1 ELSE 1
             signin_history == IF saved_data # None
                               THEN saved_data[1].signin_history ELSE <<>>
         IN [name |-> name,
             last_signin_date |-> today,
             streak |-> new_streak,
             signin_history |-> push_if_absent(signin_history, today)]

\* Mutant: a check-in on the day of the record counts once more.
calculate_counting_same_day(saved_data, name, today, now) ==
    IF saved_data # None /\ saved_data[1].last_signin_date = today
    THEN [saved_data[1] EXCEPT !.streak = @ + 1]
    ELSE LET continue == saved_data # None /\ should_continue_streak(saved_data, now)
             new_streak == IF continue THEN saved_data[1].streak + 1 ELSE 1
             signin_history == IF continue THEN saved_data[1].signin_history ELSE <<>>
         IN [name |-> name,
             last_signin_date |-> today,
             streak |-> new_streak,
             signin_history |-> push_if_absent(signin_history, today)]

\* commands.rs: the same-day rule first, then should_continue_streak (whose
\* clock reading is now), then the new streak.
calculate_signin_data(saved_data, name, today, now) ==
    IF saved_data # None /\ saved_data[1].last_signin_date = today
    THEN saved_data[1]
    ELSE LET continue == saved_data # None /\ should_continue_streak(saved_data, now)
             new_streak == IF continue THEN saved_data[1].streak + 1 ELSE 1
             signin_history == IF continue THEN saved_data[1].signin_history ELSE <<>>
         IN [name |-> name,
             last_signin_date |-> today,
             streak |-> new_streak,
             signin_history |-> push_if_absent(signin_history, today)]

\* lib.rs, the body of signin up to the new record: should_continue_streak
\* first, then the same-day rule, which returns from signin at once
\* (returns_early: nothing is saved or sent).
lib_signin_data(saved_data, name, today, now) ==
    IF saved_data # None /\ ~should_continue_streak(saved_data, now)
                         /\ saved_data[1].last_signin_date = today
    THEN [returns_early |-> TRUE, new_data |-> saved_data[1]]
    ELSE LET continue == saved_data # None /\ should_continue_streak(saved_data, now)
             new_streak == IF continue THEN saved_data[1].streak + 1 ELSE 1
             signin_history == IF continue THEN saved_data[1].signin_history ELSE <<>>
         IN [returns_early |-> FALSE,
             new_data |-> [name |-> name,
                           last_signin_date |-> today,
                           streak |-> new_streak,
                           signin_history |-> push_if_absent(signin_history, today)]]

\* ------------------------------------------------------------------ email
\* What a signin finds outside the check-in record: what load_email_config
\* returns (an error, or the configuration: enabled or not, and its addresses
\* empty, invalid or valid), whether fetch_hitokoto fails, whether the SMTP
\* host can be reached.
EmailConfigs == [enabled : BOOLEAN, addresses : {"empty", "invalid", "valid"}]
\* email_config is the Result of load_email_config: None for Err.
EmailEnvs ==
    [email_config : {None} \cup {Some(c) : c \in EmailConfigs},
     quote : {"ok", "fetch_err"},
     smtp : {"ok", "unreachable"}]
ErrInvalidEmail == "Invalid email"
ErrSendEmail == "Failed to send email"

\* send_signin_email: its Result, and whether a message went out.
send_signin_email(config, smtp) ==
    IF ~config.enabled \/ config.addresses = "empty"
    THEN [result |-> Ok, sent |-> FALSE]
    ELSE IF config.addresses = "invalid"
    THEN [result |-> ErrInvalidEmail, sent |-> FALSE]
    ELSE IF smtp = "unreachable"
    THEN [result |-> ErrSendEmail, sent |-> FALSE]
    ELSE [result |-> Ok, sent |-> TRUE]

\* The side effect that failed, if one did ("none" otherwise).
side_failure(env) ==
    IF env.email_config = None THEN "config"
    ELSE IF ~env.email_config[1].enabled THEN "none"
    ELSE IF send_signin_email(env.email_config[1], env.smtp).result # Ok THEN "email"
    ELSE IF env.quote = "fetch_err" THEN "quote"
    ELSE "none"

\* commands.rs send_signin_notification returns nothing: every failure is
\* logged and dropped.
send_signin_notification(env) ==
    [result |-> Ok, attempted |-> TRUE,
     sent |-> IF env.email_config = None THEN FALSE
              ELSE IF ~env.email_config[1].enabled THEN FALSE
              ELSE send_signin_email(env.email_config[1], env.smtp).sent,
     failure |-> side_failure(env)]

\* lib.rs signin, after save_data: load_email_config()? and
\* send_signin_email(...)? hand their errors to the caller.
lib_send_signin_email(env) ==
    IF env.email_config = None
    THEN [result |-> ErrIo, attempted |-> TRUE, sent |-> FALSE,
          failure |-> side_failure(env)]
    ELSE IF ~env.email_config[1].enabled
    THEN [result |-> Ok, attempted |-> TRUE, sent |-> FALSE,
          failure |-> side_failure(env)]
    ELSE [result |-> send_signin_email(env.email_config[1], env.smtp).result,
          attempted |-> TRUE,
          sent |-> send_signin_email(env.email_config[1], env.smtp).sent,
          failure |-> side_failure(env)]

\* The notification was not reached (attempted: load_email_config was called).
NotSent == [result |-> Ok, attempted |-> FALSE, sent |-> FALSE, failure |-> "none"]

\* Mutant: the notification goes out before save_data is called.
notification_before_save(io, mail) == IF io = "load_err" THEN NotSent ELSE mail

\* save_data(&new_data)? comes before the notification: a signin that fails
\* at load_data or save_data returns before it.
notification_after_save(io, mail) == IF io # "ok" THEN NotSent ELSE mail

\* ------------------------------------------------------------------ check-in commands
\* The days of the check-ins since there was no record: the first, the latest,
\* and whether each was made on the day of the one before or on the next day
\* (kept for commands.rs signin, the one the streak is counted against).
checked_in(day) ==
    IF checkins = None
    THEN Some([first |-> day, latest |-> day, consecutive |-> TRUE])
    ELSE Some([first |-> checkins[1].first,
               latest |-> day,
               consecutive |-> /\ checkins[1].consecutive
                               /\ day \in {checkins[1].latest, checkins[1].latest + 1}])

\* What a signin leaves in last: saved is the data.json it found, today the
\* date it read for the new record, io the storage call that failed, if one did.
SigninResult(m, op, name, today, result, ret, mail, io) ==
    [op |-> op, machine |-> m, arg |-> name, result |-> result, ret |-> ret,
     saved |-> signin_data[m], today |-> today, io |-> io,
     attempted |-> mail.attempted, sent |-> mail.sent, failure |-> mail.failure]

\* commands.rs signin: load_data, get_today_date (clock reading t1),
\* calculate_signin_data (clock reading t2), save_data, send_signin_notification.
SigninOn(M, IO, T) ==
    \E m \in M, name \in SigninNames, io \in IO, t1 \in T,
       mail \in {send_signin_notification(env) : env \in EmailEnvs} :
        \E t2 \in LaterReadings(t1) :
            LET saved_data == signin_data[m]
                today == get_today_date(t1)
                new_data == calculate_signin_data(saved_data, name, today, t2)
            IN /\ UNCHANGED <<stored, nextUuid, calls, accepts>>
               /\ IF io # "ok"
                  THEN /\ UNCHANGED <<signin_data, checkins>>
                       /\ last' = SigninResult(m, "signin", name, today, ErrIo, None,
                                               notification_after_save(io, mail), io)
                  ELSE /\ signin_data' = [signin_data EXCEPT ![m] = Some(new_data)]
                       /\ checkins' = checked_in(t1)
                       /\ last' = SigninResult(m, "signin", name, today, Ok,
                                               Some(new_data),
                                               notification_after_save(io, mail), io)

\* The model stops lib.rs signin at a streak of MaxStreak.
StreakBelowCap(m) ==
    IF signin_data[m] = None THEN TRUE ELSE signin_data[m][1].streak < MaxStreak

\* lib.rs signin: load_data, get_today_date (t1), the new record (t2), the
\* early return, save_data, load_email_config, send_signin_email.
LibSigninOn(M, IO, T) ==
    \E m \in M, name \in SigninNames, io \in IO, t1 \in T,
       mail \in {lib_send_signin_email(env) : env \in EmailEnvs} :
        \E t2 \in LaterReadings(t1) :
            /\ StreakBelowCap(m)
            /\ LET saved_data == signin_data[m]
                   today == get_today_date(t1)
                   calc == lib_signin_data(saved_data, name, today, t2)
               IN /\ UNCHANGED <<stored, nextUuid, calls, accepts>>
                  /\ IF io = "load_err" \/ (io = "save_err" /\ ~calc.returns_early)
                     THEN /\ UNCHANGED <<signin_data, checkins>>
                          /\ last' = SigninResult(m, "signin", name, today, ErrIo, None,
                                                  notification_after_save(io, mail),
                                                  io)
                     ELSE IF calc.returns_early
                     THEN /\ UNCHANGED <<signin_data, checkins>>
                          /\ last' = SigninResult(m, "signin", name, today, Ok,
                                                  Some(calc.new_data), NotSent, "ok")
                     ELSE /\ signin_data' = [signin_data EXCEPT
                                                ![m] = Some(calc.new_data)]
                          /\ UNCHANGED checkins
                          /\ last' = SigninResult(m, "signin", name, today,
                                                  mail.result,
                                                  IF mail.result = Ok
                                                  THEN Some(calc.new_data) ELSE None,
                                                  notification_after_save("ok", mail),
                                                  "ok")

\* delete_data as it would be without the path.exists() test: remove_file on
\* a missing file is an error.
delete_existing_data(data, io) ==
    IF io # "ok" \/ data = None THEN [result |-> ErrIo, data |-> data]
    ELSE [result |-> Ok, data |-> None]

\* delete_data (in lib.rs the body of signout): get_data_file_path()? can fail
\* (load_err); remove_file, which can fail (save_err), is called only when
\* the file exists.
delete_data(data, io) ==
    IF io = "load_err" THEN [result |-> ErrIo, data |-> data]
    ELSE IF data = None THEN [result |-> Ok, data |-> None]
    ELSE IF io = "save_err" THEN [result |-> ErrIo, data |-> data]
    ELSE [result |-> Ok, data |-> None]

\* signout: delete_data, its error handed to the caller.  saved is the
\* data.json the call found.
SignoutOn(M, IO) ==
    \E m \in M, io \in IO :
        LET deleted == delete_data(signin_data[m], io)
        IN /\ UNCHANGED <<stored, nextUuid, calls, accepts>>
           /\ signin_data' = [signin_data EXCEPT ![m] = deleted.data]
           /\ checkins' = IF deleted.result = Ok THEN None ELSE checkins
           /\ last' = [op |-> "signout", machine |-> m, arg |-> UnknownId,
                       result |-> deleted.result, ret |-> None,
                       saved |-> signin_data[m], io |-> io]

\* ------------------------------------------------------------------ SpecSignin
\* commands.rs signin and signout on one device, from no data.json, with
\* storage failures, the clock at any day when a command starts.
SigninCommand == SigninOn(Local, IoOutcomes, Days)
SignoutCommand == SignoutOn(Local, IoOutcomes)

NextSignin ==
    \/ SigninCommand
    \/ SignoutCommand

SpecSignin == Init /\ [][NextSignin]_vars

\* ------------------------------------------------------------------ SpecLibSignin
\* The same with the signin and signout of lib.rs, the ones run() registers.
LibSigninCommand == LibSigninOn(Local, IoOutcomes, Days)

NextLibSignin ==
    \/ LibSigninCommand
    \/ SignoutCommand

SpecLibSignin == Init /\ [][NextLibSignin]_vars

\* ------------------------------------------------------------------ SpecBothSignins
\* The signin of commands.rs and the signin of lib.rs over the same data.json,
\* the clock at one of the first two days of the window when a call starts.
FirstDays == {t \in Days : t <= 1}
SigninOnFirstDays == SigninOn(Local, IoOutcomes, FirstDays)
LibSigninOnFirstDays == LibSigninOn(Local, IoOutcomes, FirstDays)

NextBothSignins ==
    \/ SigninOnFirstDays
    \/ LibSigninOnFirstDays
    \/ SignoutCommand

SpecBothSignins == Init /\ [][NextBothSignins]_vars

\* ------------------------------------------------------------------ seeded
\* data.json is a file: a signin finds in it whatever was written there.  The
\* seeded specifications start from any record of SeedRecords, or from none.
Unparsable == {<<2024, 2, 30>>, <<>>}
SeedDates == {get_today_date(t) : t \in Days} \cup Unparsable
SeedHistories(date) ==
    {<<date>>, <<get_today_date(0), date>>, <<date, get_today_date(MaxDay)>>}
SeedRecords ==
    UNION {[name : {"alice"},
            last_signin_date : {date},
            streak : {1, 2},
            signin_history : SeedHistories(date)] : date \in SeedDates}

InitSeeded ==
    /\ stored = [m \in Machines |-> None]
    /\ nextUuid = 1
    /\ last = NoCommand
    /\ signin_data \in {[m \in Machines |-> IF m \in Local THEN file ELSE None] :
                          file \in {None} \cup {Some(r) : r \in SeedRecords}}
    /\ checkins = None
    /\ calls = [p \in Threads |-> Idle]
    /\ accepts = <<>>

SpecSigninSeeded == InitSeeded /\ [][NextSignin]_vars

\* ------------------------------------------------------------------ views
\* iter().filter(|r| r.target_device_id == my_device_id && r.status == Pending)
pending_for_target(config) ==
    SelectSeq(config.supervision_requests,
              LAMBDA r : /\ r.target_device_id = config.device.device_id
                         /\ r.status = Pending)

\* Mutant: the target is not compared with the device's own id.
get_pending_of_any_target(config) ==
    Outcome(Ok,
            Some(SelectSeq(config.supervision_requests, LAMBDA r : r.status = Pending)),
            None, 0)

get_pending_supervision_requests(config) ==
    Outcome(Ok, Some(pending_for_target(config)), None, 0)

\* Mutant: is_signed_in_today is true as soon as there is a record.
build_status_any_day(relationship, data, today) ==
    [device_id |-> relationship.supervised_device_id,
     device_name |-> relationship.supervised_device_name,
     last_signin_date |-> IF data = None THEN <<>> ELSE data[1].last_signin_date,
     streak |-> IF data = None THEN 0 ELSE data[1].streak,
     is_signed_in_today |-> data # None,
     last_sync_at |-> relationship.last_sync_at]

\* String::default() is the empty string, the tuple <<>>.
build_device_status(relationship, data, today) ==
    [device_id |-> relationship.supervised_device_id,
     device_name |-> relationship.supervised_device_name,
     last_signin_date |-> IF data = None THEN <<>> ELSE data[1].last_signin_date,
     streak |-> IF data = None THEN 0 ELSE data[1].streak,
     is_signed_in_today |-> IF data = None THEN FALSE
                            ELSE data[1].last_signin_date = today,
     last_sync_at |-> relationship.last_sync_at]

\* iter().filter(|r| r.supervisor_device_id == config.device.device_id).map(..)
supervised_statuses(config, data, today) ==
    LET mine == SelectSeq(config.supervision_relationships,
                          LAMBDA r : r.supervisor_device_id = config.device.device_id)
    IN [i \in 1 .. Len(mine) |-> build_device_status(mine[i], data, today)]

get_supervised_devices(config, data, today) ==
    Outcome(Ok, Some(supervised_statuses(config, data, today)), None, 0)

\* Mutant: the status of the requests is not looked at.
supervisor_status_of_any_status(config, data, today) ==
    Outcome(Ok,
            Some([supervisor_device_id |-> config.device.device_id,
                  supervised_devices |-> supervised_statuses(config, data, today),
                  pending_requests |->
                      SelectSeq(config.supervision_requests,
                                LAMBDA r : r.supervisor_device_id
                                               = config.device.device_id)]),
            None, 0)

get_supervisor_status(config, data, today) ==
    Outcome(Ok,
            Some([supervisor_device_id |-> config.device.device_id,
                  supervised_devices |-> supervised_statuses(config, data, today),
                  pending_requests |->
                      SelectSeq(config.supervision_requests,
                                LAMBDA r : /\ r.supervisor_device_id
                                                = config.device.device_id
                                           /\ r.status = Pending)]),
            None, 0)

\* What a view leaves in last: today is the date it read from the clock.
ViewResult(e, today) ==
    [op |-> e.last.op, machine |-> e.last.machine, arg |-> e.last.arg,
     result |-> e.last.result, ret |-> e.last.ret, today |-> today]

GetPendingSupervisionRequestsOn(M, IO, T) ==
    \E m \in M, io \in IO, t \in T :
        LET ld == load_or_create_device_config(m, io, t)
            out == get_pending_supervision_requests(ld.config)
        IN LET e == Command(m, "get_pending_supervision_requests", UnknownId, io, ld, out)
           IN /\ stored' = e.stored
              /\ nextUuid' = e.nextUuid
              /\ last' = e.last
              /\ UNCHANGED <<signin_data, checkins, calls, accepts>>

\* get_supervised_devices: load_or_create_device_config, load_data (fails when
\* dio is "load_err"), get_today_date (clock reading now), the statuses.
GetSupervisedDevicesOn(M, IO, T, D) ==
    \E m \in M, io \in IO, dio \in IO, t \in T, now \in D :
        LET ld == load_or_create_device_config(m, io, t)
            today == get_today_date(now)
            out == IF dio = "load_err" THEN Outcome(ErrIo, None, None, 0)
                   ELSE get_supervised_devices(ld.config, signin_data[m], today)
        IN LET e == Command(m, "get_supervised_devices", UnknownId, io, ld, out)
           IN /\ stored' = e.stored
              /\ nextUuid' = e.nextUuid
              /\ last' = ViewResult(e, today)
              /\ UNCHANGED <<signin_data, checkins, calls, accepts>>

\* get_supervisor_status: load_or_create_device_config, then
\* get_supervised_devices()? (which loads both files again and reads the
\* clock), then the filter over the record loaded first.
GetSupervisorStatusOn(M, IO, T, D) ==
    \E m \in M, io \in IO, dio \in IO, t \in T, now \in D :
        LET ld == load_or_create_device_config(m, io, t)
            today == get_today_date(now)
            out == IF dio = "load_err" THEN Outcome(ErrIo, None, None, 0)
                   ELSE get_supervisor_status(ld.config, signin_data[m], today)
        IN LET e == Command(m, "get_supervisor_status", UnknownId, io, ld, out)
           IN /\ stored' = e.stored
              /\ nextUuid' = e.nextUuid
              /\ last' = ViewResult(e, today)
              /\ UNCHANGED <<signin_data, checkins, calls, accepts>>

\* ------------------------------------------------------------------ SpecInterleaved
\* Two threads of device A inside handlers at the same time.  No handler takes
\* a lock, so the steps of one call can fall between the steps of another:
\* the path.exists() test and read of load_or_create_device_config (BeginCall),
\* its creation and save of a new record (CreateConfig), and the handler's own
\* work on the record it was given, up to its save_device_config (FinishCall).
ThreadOps == {"set_device_mode", "send_supervision_request"}
ThreadArgs(op) ==
    IF op = "set_device_mode" THEN DeviceMode ELSE DeviceIds \cup {UnknownId}

RequestIdsOf(config) ==
    {config.supervision_requests[i].request_id :
        i \in 1 .. Len(config.supervision_requests)}

\* load_or_create_device_config up to the branch on path.exists(): the record
\* read from the file, or the knowledge that there was no file.
BeginCall(p, m) ==
    \E op \in ThreadOps :
        \E arg \in ThreadArgs(op) :
            /\ calls[p] = Idle
            /\ op = "send_supervision_request" => HasRoom(m) /\ nextUuid <= MaxIds
            /\ calls' = [calls EXCEPT
                            ![p] = [pc |-> IF stored[m] = None THEN "creating"
                                           ELSE "loaded",
                                    op |-> op, arg |-> arg,
                                    config |-> stored[m], missed |-> {}]]
            /\ UNCHANGED <<stored, nextUuid, last, signin_data, checkins, accepts>>

\* The else branch of load_or_create_device_config: a record with a new
\* device_id is written over whatever the file holds by now.
CreateConfig(p, m, T) ==
    \E t \in T :
        /\ calls[p].pc = "creating"
        /\ LET config == DeviceConfigNew(nextUuid, t)
           IN /\ stored' = [stored EXCEPT ![m] = save_device_config(config)]
              /\ calls' = [calls EXCEPT ![p].pc = "loaded", ![p].config = Some(config)]
        /\ nextUuid' = nextUuid + 1
        /\ UNCHANGED <<last, signin_data, checkins, accepts>>

\* Mutant: the handler works on the record the file holds when it saves (as
\* it would if load and save were under one lock).
reloaded_config(p, m) == stored[m][1]

\* The record the handler mutates and saves: the one its own
\* load_or_create_device_config returned.
loaded_config(p, m) == calls[p].config[1]

ThreadHandler(config, op, arg, uuid, t) ==
    IF op = "set_device_mode" THEN set_device_mode(config, arg)
    ELSE send_supervision_request(config, arg, uuid, t)

\* The rest of the handler: its result, and its save_device_config of the whole
\* record.  missed: the ids of the requests other threads saved after this
\* thread's load (last keeps those of the call that finished).
FinishCall(p, m, T) ==
    \E t \in T :
        /\ calls[p].pc = "loaded"
        /\ LET out == ThreadHandler(loaded_config(p, m), calls[p].op, calls[p].arg,
                                    nextUuid, t)
               file == IF out.write = None THEN stored[m]
                       ELSE save_device_config(out.write[1])
           IN /\ stored' = [stored EXCEPT ![m] = file]
              /\ nextUuid' = nextUuid + out.uuids
              /\ last' = [op |-> calls[p].op, machine |-> m, arg |-> calls[p].arg,
                          result |-> out.result, ret |-> out.ret,
                          missed |-> calls[p].missed]
              /\ calls' = [q \in Threads |->
                              IF q = p THEN Idle
                              ELSE IF calls[q].pc = "loaded" /\ out.write # None
                              THEN [calls[q] EXCEPT
                                       !.missed = @ \cup (RequestIdsOf(out.write[1])
                                                  \ RequestIdsOf(calls[q].config[1]))]
                              ELSE calls[q]]
        /\ UNCHANGED <<signin_data, checkins, accepts>>

ThreadBegins == \E p \in Threads : BeginCall(p, "A")
ThreadCreates == \E p \in Threads : CreateConfig(p, "A", Frozen)
ThreadFinishes == \E p \in Threads : FinishCall(p, "A", Frozen)

NextInterleaved ==
    \/ ThreadBegins
    \/ ThreadCreates
    \/ ThreadFinishes

SpecInterleaved == Init /\ [][NextInterleaved]_vars

\* ------------------------------------------------------------------ SpecViews
\* device_config.json is a file: a handler works on whatever record it holds.
\* SeedConfig is the record of a supervised device as the ledger is meant to
\* hold it: a Pending request and a relationship (synchronised once since it
\* was made) that name another device (id 2) as the supervisor.  The
\* specifications of the views start from it, or from no file.
SeedConfig ==
    [device |-> [device_id |-> 1, device_name |-> DefaultDeviceName(1),
                 imei |-> None, mode |-> Signin, created_at |-> 0],
     supervision_requests |->
         <<[request_id |-> 3, supervisor_device_id |-> 2,
            supervisor_device_name |-> DefaultDeviceName(2),
            target_device_id |-> 1, status |-> Pending, created_at |-> 0]>>,
     supervision_relationships |->
         <<[relationship_id |-> 4, supervisor_device_id |-> 2,
            supervisor_device_name |-> DefaultDeviceName(2),
            supervised_device_id |-> 1,
            supervised_device_name |-> DefaultDeviceName(1),
            established_at |-> 0, last_sync_at |-> 1]>>]

InitViews ==
    /\ \/ stored = [m \in Machines |-> None] /\ nextUuid = 1
       \/ stored = [m \in Machines |-> IF m \in Local THEN Some(SeedConfig) ELSE None]
          /\ nextUuid = 5
    /\ last = NoCommand
    /\ signin_data = [m \in Machines |-> None]
    /\ checkins = None
    /\ calls = [p \in Threads |-> Idle]
    /\ accepts = <<>>

\* A view saves nothing: its storage calls are loads.
ReadOutcomes == {"ok", "load_err"}
GetPendingSupervisionRequests ==
    GetPendingSupervisionRequestsOn(Local, ReadOutcomes, Frozen)
GetSupervisorStatus == GetSupervisorStatusOn(Local, ReadOutcomes, Frozen, Frozen)

NextViews ==
    \/ SetDeviceMode
    \/ SendSupervisionRequest
    \/ CancelSupervisionRequest
    \/ AcceptSupervisionRequest
    \/ RejectSupervisionRequest
    \/ GetPendingSupervisionRequests
    \/ GetSupervisorStatus

SpecViews == InitViews /\ [][NextViews]_vars

\* ------------------------------------------------------------------ SpecStatus
\* The supervised-devices view over the check-in records data.json may hold.
AcceptWithoutFailure == AcceptSupervisionRequestOn(Local, NoFailure, Frozen)
SendWithoutFailure == SendSupervisionRequestOn(Local, NoFailure, Frozen)
SetModeWithoutFailure == SetDeviceModeOn(Local, NoFailure, Frozen)
GetSupervisedDevices == GetSupervisedDevicesOn(Local, ReadOutcomes, Frozen, Days)
\* The check-in records whose history is the one date they were last stamped with.
StatusRecords == {r \in SeedRecords : r.signin_history = <<r.last_signin_date>>}

InitStatus ==
    /\ \/ stored = [m \in Machines |-> None] /\ nextUuid = 1
       \/ stored = [m \in Machines |-> IF m \in Local THEN Some(SeedConfig) ELSE None]
          /\ nextUuid = 5
    /\ last = NoCommand
    /\ signin_data \in {[m \in Machines |-> IF m \in Local THEN file ELSE None] :
                          file \in {None} \cup {Some(r) : r \in StatusRecords}}
    /\ checkins = None
    /\ calls = [p \in Threads |-> Idle]
    /\ accepts = <<>>

NextStatus ==
    \/ SetModeWithoutFailure
    \/ SendWithoutFailure
    \/ AcceptWithoutFailure
    \/ GetSupervisedDevices

SpecStatus == InitStatus /\ [][NextStatus]_vars

\* ------------------------------------------------------------------ properties
\* The ledger of a file: empty when there is no file.
RequestsOf(file) == IF file = None THEN <<>> ELSE file[1].supervision_requests
RelationshipsOf(file) == IF file = None THEN <<>> ELSE file[1].supervision_relationships

\* The positions of the requests with this id.
Positions(requests, request_id) ==
    {i \in 1 .. Len(requests) : requests[i].request_id = request_id}

\* The relationship corresponds to the request: same supervisor, and the
\* supervised device is the request's target.
Corresponds(rel, req) ==
    /\ rel.supervisor_device_id = req.supervisor_device_id
    /\ rel.supervised_device_id = req.target_device_id

\* The handler of the step saved nothing: the file is as it was, or it is the
\* record load_or_create_device_config made on the first access (no ledger yet).
HandlerSavedNothing(m) ==
    IF stored[m] # None THEN stored'[m] = stored[m]
    ELSE RequestsOf(stored'[m]) = <<>> /\ RelationshipsOf(stored'[m]) = <<>>

\* The step is the command op.
Ran(op) == last'.op = op

\* ------------------------------------------------------------------ SpecIdentity
\* Every command that touches device_config.json, one after the other, on a
\* device that starts without the file.  The identity commands and the views
\* meet storage failures; the ledger is kept to MaxIdentityRequests requests.
LedgerIsShort == Len(RequestsOf(stored["A"])) < MaxIdentityRequests
SetDeviceImei == SetDeviceImeiOn(Local, IoOutcomes, Frozen)
SendToShortLedger == LedgerIsShort /\ SendSupervisionRequestOn(Local, NoFailure, Frozen)
CancelWithoutFailure == CancelSupervisionRequestOn(Local, NoFailure, Frozen)
RejectWithoutFailure == RejectSupervisionRequestOn(Local, NoFailure, Frozen)
RemoveWithoutFailure ==
    RemoveSupervisionRelationshipOn(Local, NoFailure, Frozen,
                                    RelationshipIds \cup {UnknownId})
SupervisedDevicesToday == GetSupervisedDevicesOn(Local, ReadOutcomes, Frozen, Frozen)

NextIdentity ==
    \/ GetDeviceConfig
    \/ SetDeviceMode
    \/ UpdateDeviceName
    \/ SetDeviceImei
    \/ SendToShortLedger
    \/ CancelWithoutFailure
    \/ AcceptWithoutFailure
    \/ RejectWithoutFailure
    \/ RemoveWithoutFailure
    \/ GetPendingSupervisionRequests
    \/ SupervisedDevicesToday
    \/ GetSupervisorStatus

SpecIdentity == Init /\ [][NextIdentity]_vars

\* ------------------------------------------------------------------ SpecAcceptOnce
\* The ledger commands of device A with a record kept of every
\* accept_supervision_request that returned Ok (accepts: the request ids, in
\* order).  Storage fails for accept alone.
AcceptRecorded ==
    \E io \in IoOutcomes, t \in Frozen, request_id \in RequestIds \cup {UnknownId} :
        LET ld == load_or_create_device_config("A", io, t)
            out == accept_supervision_request(ld.config, request_id,
                                              next_uuid_after(ld), t, t)
        IN LET e == Command("A", "accept_supervision_request", request_id, io, ld, out)
           IN /\ stored' = e.stored
              /\ nextUuid' = e.nextUuid
              /\ last' = e.last
              /\ accepts' = IF e.last.result = Ok THEN Append(accepts, request_id)
                            ELSE accepts
              /\ UNCHANGED <<signin_data, checkins, calls>>

NextAcceptOnce ==
    \/ SetModeWithoutFailure
    \/ SendWithoutFailure
    \/ CancelWithoutFailure
    \/ RejectWithoutFailure
    \/ RemoveWithoutFailure
    \/ AcceptRecorded

SpecAcceptOnce == Init /\ [][NextAcceptOnce]_vars

\* ------------------------------------------------------------------ C1
\* C1: in every reachable state of device A's ledger a request is Accepted if
\* and only if a corresponding relationship exists: every Accepted request has
\* a corresponding relationship, and every relationship a corresponding
\* Accepted request.
C1_AcceptedIffRelationship ==
    LET requests == RequestsOf(stored["A"])
        rels == RelationshipsOf(stored["A"])
    IN /\ \A i \in 1 .. Len(requests) :
              requests[i].status = Accepted
                  => \E k \in 1 .. Len(rels) : Corresponds(rels[k], requests[i])
       /\ \A k \in 1 .. Len(rels) :
              \E i \in 1 .. Len(requests) :
                  requests[i].status = Accepted /\ Corresponds(rels[k], requests[i])

\* ------------------------------------------------------------------ C2
\* C2: an accept_request or reject_request whose request_id names a request
\* that is Accepted, Rejected or Cancelled fails and leaves the file as it was.
C2_TerminalRequestRefuses ==
    [][\A m \in Machines :
          ( /\ last'.machine = m
            /\ Ran("accept_supervision_request") \/ Ran("reject_supervision_request")
            /\ \E i \in Positions(RequestsOf(stored[m]), last'.arg) :
                   RequestsOf(stored[m])[i].status # Pending )
              => last'.result # Ok /\ stored'[m] = stored[m]]_vars

\* ------------------------------------------------------------------ C3
\* C3: no step changes the status of a request that is Accepted, Rejected or
\* Cancelled.
C3_TerminalStatusAbsorbing ==
    [][\A m \in Machines :
          \A i \in 1 .. Len(RequestsOf(stored[m])) :
              RequestsOf(stored[m])[i].status # Pending
                  => /\ i <= Len(RequestsOf(stored'[m]))
                     /\ RequestsOf(stored'[m])[i].status
                            = RequestsOf(stored[m])[i].status]_vars

\* ------------------------------------------------------------------ C4
\* C4: an accept_request that returns Ok has saved, in the one record, the
\* request flipped from Pending to Accepted and exactly one new relationship at
\* the end of the collection, which is the one it returns (supervisor id and
\* name copied from the request, supervised id and name those of the local
\* device, a relationship_id no other relationship has), everything else as it
\* was; an accept_request that fails has saved neither; and in no step of any
\* command does a request become Accepted without a relationship being added
\* or a relationship get added without a request becoming Accepted.
AcceptCommitted(m) ==
    /\ stored[m] # None
    /\ last'.ret # None
    /\ \E i \in Positions(RequestsOf(stored[m]), last'.arg) :
        LET config == stored[m][1]
            request == config.supervision_requests[i]
            rel == last'.ret[1]
        IN /\ request.status = Pending
           /\ stored'[m][1].supervision_requests
                  = [config.supervision_requests EXCEPT ![i].status = Accepted]
           /\ stored'[m][1].supervision_relationships
                  = Append(config.supervision_relationships, rel)
           /\ stored'[m][1].device = config.device
           /\ rel.supervisor_device_id = request.supervisor_device_id
           /\ rel.supervisor_device_name = request.supervisor_device_name
           /\ rel.supervised_device_id = config.device.device_id
           /\ rel.supervised_device_name = config.device.device_name
           /\ \A k \in 1 .. Len(config.supervision_relationships) :
                  config.supervision_relationships[k].relationship_id
                      # rel.relationship_id

BecomesAccepted(m) ==
    \E i \in 1 .. Len(RequestsOf(stored'[m])) :
        /\ RequestsOf(stored'[m])[i].status = Accepted
        /\ i > Len(RequestsOf(stored[m])) \/ RequestsOf(stored[m])[i].status # Accepted

C4_AcceptCommitsBoth ==
    [][\A m \in Machines :
          /\ (last'.machine = m /\ Ran("accept_supervision_request"))
                 => IF last'.result = Ok THEN AcceptCommitted(m)
                    ELSE HandlerSavedNothing(m)
          /\ BecomesAccepted(m)
                 <=> Len(RelationshipsOf(stored'[m])) > Len(RelationshipsOf(stored[m]))
      ]_vars

\* Reached: an accept_request returned Ok on a device renamed after it sent the
\* request, so the two names of the relationship differ.
C4_Witness ==
    /\ last.op = "accept_supervision_request"
    /\ last.result = Ok
    /\ last.ret[1].supervisor_device_name # last.ret[1].supervised_device_name
    /\ Len(RelationshipsOf(stored[last.machine])) = 2

\* ------------------------------------------------------------------ C5
\* C5: when device B calls accept_request with the id of a Pending request that
\* device A (the supervisor) created for target B, the call returns Ok with a
\* relationship of supervisor A and supervised B, the only such relationship,
\* and the request is Accepted.
C5_TwoDeviceAccept ==
    ( /\ last.op = "accept_supervision_request"
      /\ last.machine = "B"
      /\ stored["A"] # None
      /\ stored["B"] # None
      /\ \E i \in Positions(RequestsOf(stored["A"]), last.arg) :
             LET request == RequestsOf(stored["A"])[i]
             IN /\ request.supervisor_device_id = stored["A"][1].device.device_id
                /\ request.target_device_id = stored["B"][1].device.device_id
                /\ request.status \in {Pending, Accepted} )
        => /\ last.result = Ok
           /\ last.ret # None
           /\ last.ret[1].supervisor_device_id = stored["A"][1].device.device_id
           /\ last.ret[1].supervised_device_id = stored["B"][1].device.device_id
           /\ Cardinality({k \in 1 .. Len(RelationshipsOf(stored["B"])) :
                  /\ RelationshipsOf(stored["B"])[k].supervisor_device_id
                         = stored["A"][1].device.device_id
                  /\ RelationshipsOf(stored["B"])[k].supervised_device_id
                         = stored["B"][1].device.device_id}) = 1
           /\ \E m \in Machines :
                  \E i \in Positions(RequestsOf(stored[m]), last.arg) :
                      RequestsOf(stored[m])[i].status = Accepted

\* ------------------------------------------------------------------ C6
\* C6: an accept_request whose request_id names no Pending request fails with
\* "not found or already processed" (also when a request with that id exists
\* and its target is another device); one whose Pending request is for another
\* device fails with "not for this device"; either way no relationship is added
\* and no request changes.  Only a storage failure can replace these errors.
HasPending(m, request_id) ==
    \E i \in Positions(RequestsOf(stored[m]), request_id) :
        RequestsOf(stored[m])[i].status = Pending

PendingIsForMe(m, request_id) ==
    \E i \in Positions(RequestsOf(stored[m]), request_id) :
        /\ RequestsOf(stored[m])[i].status = Pending
        /\ RequestsOf(stored[m])[i].target_device_id = stored[m][1].device.device_id

C6_AcceptErrors ==
    [][\A m \in Machines :
          (last'.machine = m /\ Ran("accept_supervision_request"))
              => /\ ~HasPending(m, last'.arg)
                     => last'.result \in {ErrNotFoundOrProcessed, ErrIo}
                 /\ (HasPending(m, last'.arg) /\ ~PendingIsForMe(m, last'.arg))
                     => last'.result \in {ErrWrongTarget, ErrIo}
                 /\ last'.result = ErrNotFoundOrProcessed => ~HasPending(m, last'.arg)
                 /\ last'.result = ErrWrongTarget
                     => HasPending(m, last'.arg) /\ ~PendingIsForMe(m, last'.arg)
                 /\ last'.result # Ok => HandlerSavedNothing(m)]_vars

\* Reached: accept_request answered "not found or already processed" for a
\* request that exists, is no longer Pending, and is for another device.
C6_Witness ==
    /\ last.op = "accept_supervision_request"
    /\ last.result = ErrNotFoundOrProcessed
    /\ \E i \in Positions(RequestsOf(stored[last.machine]), last.arg) :
           RequestsOf(stored[last.machine])[i].target_device_id
               # stored[last.machine][1].device.device_id

\* ------------------------------------------------------------------ C7
\* C7: a reject_request whose request_id names no request fails with "not
\* found"; one whose request is for another device fails with "not for this
\* device"; both leave the file as it was; otherwise it sets that request's
\* status to Rejected and changes nothing else, unless the save fails, which
\* leaves the file as it was.
RejectCommitted(m) ==
    \E i \in Positions(RequestsOf(stored[m]), last'.arg) :
        /\ \A j \in Positions(RequestsOf(stored[m]), last'.arg) : i <= j
        /\ stored'[m] = Some([stored[m][1] EXCEPT
                                  !.supervision_requests[i].status = Rejected])

RequestIsForMe(m, request_id) ==
    \E i \in Positions(RequestsOf(stored[m]), request_id) :
        RequestsOf(stored[m])[i].target_device_id = stored[m][1].device.device_id

C7_RejectOutcomes ==
    [][\A m \in Machines :
          (last'.machine = m /\ Ran("reject_supervision_request"))
              => /\ Positions(RequestsOf(stored[m]), last'.arg) = {}
                     => last'.result \in {ErrRequestNotFound, ErrIo}
                 /\ ( /\ Positions(RequestsOf(stored[m]), last'.arg) # {}
                      /\ ~RequestIsForMe(m, last'.arg) )
                     => last'.result \in {ErrWrongTarget, ErrIo}
                 /\ RequestIsForMe(m, last'.arg) => last'.result \in {Ok, ErrIo}
                 /\ last'.result = Ok => RejectCommitted(m)
                 /\ last'.result # Ok => HandlerSavedNothing(m)]_vars

\* Reached: reject_request returned Ok in a ledger that holds a relationship.
C7_Witness ==
    /\ last.op = "reject_supervision_request"
    /\ last.result = Ok
    /\ RelationshipsOf(stored[last.machine]) # <<>>
    /\ \E i \in Positions(RequestsOf(stored[last.machine]), last.arg) :
           RequestsOf(stored[last.machine])[i].status = Rejected

\* ------------------------------------------------------------------ C8
\* C8: a create_request returns Ok only on a device whose mode was Supervisor
\* when it was called; in Signin mode (the mode of a device created by this
\* very call included) it fails with "only supervisor devices" unless storage
\* fails first, and either way saves nothing.
ModeAtCall(m) == IF stored[m] = None THEN Signin ELSE stored[m][1].device.mode

C8_OnlySupervisorCreates ==
    [][\A m \in Machines :
          (last'.machine = m /\ Ran("send_supervision_request"))
              => /\ last'.result = Ok => stored[m] # None /\ ModeAtCall(m) = Supervisor
                 /\ ModeAtCall(m) # Supervisor
                        => /\ last'.result \in {ErrNotSupervisor, ErrIo}
                           /\ HandlerSavedNothing(m)
                 /\ last'.result = ErrNotSupervisor => ModeAtCall(m) # Supervisor
                 /\ (stored[m] = None /\ stored'[m] # None)
                        => stored'[m][1].device.mode = Signin]_vars

\* Reached: create_request was refused on a device in Signin mode.
C8_Witness ==
    /\ last.op = "send_supervision_request"
    /\ last.result = ErrNotSupervisor
    /\ stored[last.machine] # None
    /\ stored[last.machine][1].device.mode = Signin

\* ------------------------------------------------------------------ C9
\* C9: a create_request that returns Ok has appended exactly the request it
\* returns: its request_id differs from that of every request already there, it
\* is Pending, its supervisor id and name are the local device's at the call,
\* its target is the one given; the earlier requests, the relationships and the
\* identity are as they were.  On a Supervisor device it is refused for no
\* reason but a storage failure, whatever requests are already there.
SendCommitted(m) ==
    /\ last'.ret # None
    /\ LET config == stored[m][1]
           request == last'.ret[1]
       IN /\ stored'[m] = Some([config EXCEPT
                                    !.supervision_requests = Append(@, request)])
          /\ Positions(config.supervision_requests, request.request_id) = {}
          /\ request.status = Pending
          /\ request.supervisor_device_id = config.device.device_id
          /\ request.supervisor_device_name = config.device.device_name
          /\ request.target_device_id = last'.arg

C9_CreateAppendsOne ==
    [][\A m \in Machines :
          (last'.machine = m /\ Ran("send_supervision_request"))
              => /\ last'.result = Ok => SendCommitted(m)
                 /\ ModeAtCall(m) = Supervisor => last'.result \in {Ok, ErrIo}
                 /\ last'.result # Ok => HandlerSavedNothing(m)]_vars

\* Reached: create_request returned Ok, on a renamed device, for a target that
\* already had a Pending request.
C9_Witness ==
    /\ last.op = "send_supervision_request"
    /\ last.result = Ok
    /\ last.ret[1].supervisor_device_name \in NameInputs
    /\ LET requests == RequestsOf(stored[last.machine])
       IN /\ Len(requests) = 2
          /\ requests[1].status = Pending
          /\ requests[2].status = Pending
          /\ requests[1].target_device_id = requests[2].target_device_id
          /\ requests[1].supervisor_device_name # requests[2].supervisor_device_name

\* ------------------------------------------------------------------ C10
\* C10: a cancel_request whose request_id names a request sets that request's
\* status to Cancelled, whatever it was, and changes nothing else (the
\* relationships included), unless storage fails, which leaves the file as it
\* was; one whose request_id names no request fails with "not found" and saves
\* nothing.
CancelCommitted(m) ==
    \E i \in Positions(RequestsOf(stored[m]), last'.arg) :
        stored'[m] = Some([stored[m][1] EXCEPT
                               !.supervision_requests[i].status = Cancelled])

C10_CancelOutcomes ==
    [][\A m \in Machines :
          (last'.machine = m /\ Ran("cancel_supervision_request"))
              => /\ Positions(RequestsOf(stored[m]), last'.arg) # {}
                     => last'.result \in {Ok, ErrIo}
                 /\ Positions(RequestsOf(stored[m]), last'.arg) = {}
                     => last'.result \in {ErrRequestNotFound, ErrIo}
                 /\ last'.result = Ok => CancelCommitted(m)
                 /\ last'.result # Ok => HandlerSavedNothing(m)]_vars

\* Reached: cancel_request returned Ok on the ledger's only request, which had
\* been accepted (its relationship is still there).
C10_Witness ==
    /\ last.op = "cancel_supervision_request"
    /\ last.result = Ok
    /\ Len(RequestsOf(stored[last.machine])) = 1
    /\ \E i \in Positions(RequestsOf(stored[last.machine]), last.arg) :
           /\ RequestsOf(stored[last.machine])[i].status = Cancelled
           /\ \E k \in 1 .. Len(RelationshipsOf(stored[last.machine])) :
                  Corresponds(RelationshipsOf(stored[last.machine])[k],
                              RequestsOf(stored[last.machine])[i])

\* ------------------------------------------------------------------ C11
\* C11: a remove_relationship whose id is the id of no relationship in the
\* collection fails with "not found" (or with a storage failure) and saves
\* nothing, so a second removal of an id fails; one whose id is in the
\* collection returns Ok unless storage fails, and then the collection is
\* shorter by exactly one, that relationship is the one lost, the id names
\* nothing any more, and the requests and the identity are as they were.
RelPositions(rels, relationship_id) ==
    {k \in 1 .. Len(rels) : rels[k].relationship_id = relationship_id}

RemoveCommitted(m) ==
    \E k \in RelPositions(RelationshipsOf(stored[m]), last'.arg) :
        LET rels == RelationshipsOf(stored[m])
        IN /\ stored'[m] = Some([stored[m][1] EXCEPT
                                    !.supervision_relationships =
                                        SubSeq(rels, 1, k - 1)
                                            \o SubSeq(rels, k + 1, Len(rels))])
           /\ Len(RelationshipsOf(stored'[m])) = Len(rels) - 1
           /\ RelPositions(RelationshipsOf(stored'[m]), last'.arg) = {}

C11_RemoveOutcomes ==
    [][\A m \in Machines :
          (last'.machine = m /\ Ran("remove_supervision_relationship"))
              => /\ RelPositions(RelationshipsOf(stored[m]), last'.arg) = {}
                     => last'.result \in {ErrRelationshipNotFound, ErrIo}
                 /\ RelPositions(RelationshipsOf(stored[m]), last'.arg) # {}
                     => last'.result \in {Ok, ErrIo}
                 /\ last'.result = Ok => RemoveCommitted(m)
                 /\ last'.result # Ok => HandlerSavedNothing(m)]_vars

\* Reached: remove_relationship answered "not found" for the id of a
\* relationship that an earlier call removed (an id handed out that is the id
\* of no device, request or relationship any more), with a relationship left.
C11_Witness ==
    /\ last.op = "remove_supervision_relationship"
    /\ last.result = ErrRelationshipNotFound
    /\ last.arg \in IssuedIds \ (DeviceIds \cup RequestIds \cup RelationshipIds)
    /\ RelationshipsOf(stored[last.machine]) # <<>>

\* ------------------------------------------------------------------ C20
\* C20: a create_request, cancel_request, accept_request, reject_request or
\* remove_relationship that returns an error leaves device_config.json exactly
\* as it was before the call, a missing file staying missing.
LedgerOps ==
    {"send_supervision_request", "cancel_supervision_request",
     "accept_supervision_request", "reject_supervision_request",
     "remove_supervision_relationship"}

C20_FailedLedgerOpWritesNothing ==
    [][\A m \in Machines :
          (last'.machine = m /\ last'.op \in LedgerOps /\ last'.result # Ok)
              => stored'[m] = stored[m]]_vars

\* C20 as amended: a ledger operation that returns an error leaves an
\* existing device_config.json exactly as it was; on a device that has none
\* the file stays missing or holds the identity record the first access
\* creates (a device_id never handed out before, Signin mode, no imei, an
\* empty ledger), and nothing else.
IsNewIdentityRecord(file) ==
    /\ file # None
    /\ file[1].device.device_id \notin IssuedIds \cup {UnknownId}
    /\ file[1].device.mode = Signin
    /\ file[1].device.imei = None
    /\ file[1].supervision_requests = <<>>
    /\ file[1].supervision_relationships = <<>>

C20_FailedLedgerOpWritesOnlyIdentity ==
    [][\A m \in Machines :
          (last'.machine = m /\ last'.op \in LedgerOps /\ last'.result # Ok)
              => IF stored[m] # None THEN stored'[m] = stored[m]
                 ELSE stored'[m] = None \/ IsNewIdentityRecord(stored'[m])]_vars

\* Reached: a reject_request was refused, the request being for another
\* device, on a ledger that holds a relationship.
C20_Witness ==
    /\ last.op = "reject_supervision_request"
    /\ last.result = ErrWrongTarget
    /\ RelationshipsOf(stored[last.machine]) # <<>>
    /\ \E i \in Positions(RequestsOf(stored[last.machine]), last.arg) :
           RequestsOf(stored[last.machine])[i].status = Pending

\* ------------------------------------------------------------------ check-in properties
\* The check-in record of a file.
RecordOf(file) == file[1]

\* a is an earlier day than b.
DateBefore(a, b) ==
    \/ a.y < b.y
    \/ a.y = b.y /\ a.m < b.m
    \/ a.y = b.y /\ a.m = b.m /\ a.d < b.d

\* ------------------------------------------------------------------ C12
\* C12: starting from no check-in record, while every check-in so far was made
\* on the day of the one before or on the day after it, the stored streak is
\* the number of days from the first check-in to the latest: 1, 2, ..., N.
C12_StreakCountsConsecutiveDays ==
    (checkins # None /\ checkins[1].consecutive)
        => /\ signin_data["A"] # None
           /\ RecordOf(signin_data["A"]).streak
                  = checkins[1].latest - checkins[1].first + 1

\* ------------------------------------------------------------------ C13
\* C13: a signin that finds a record whose last_signin_date is the day before
\* the today it stamps the new record with, and returns Ok, has saved and
\* returned a record with the streak of the old one plus one, that today as
\* last_signin_date, and the old history with that today appended unless it
\* was in it already.
IsDayBefore(date_string, today) ==
    /\ parse_from_str(date_string) # None
    /\ parse_from_str(date_string)[1] = pred_date(parse_from_str(today)[1])

Continued(previous, record, today) ==
    /\ record.streak = previous.streak + 1
    /\ record.last_signin_date = today
    /\ record.signin_history
           = IF Contains(previous.signin_history, today)
             THEN previous.signin_history
             ELSE Append(previous.signin_history, today)

C13_DayBeforeContinues ==
    ( /\ last.op = "signin"
      /\ last.result = Ok
      /\ last.saved # None
      /\ IsDayBefore(RecordOf(last.saved).last_signin_date, last.today) )
        => /\ signin_data[last.machine] = last.ret
           /\ Continued(RecordOf(last.saved), last.ret[1], last.today)

\* ------------------------------------------------------------------ C14
\* C14: a signin that finds a record whose last_signin_date is two or more
\* days before today, or later than today, or no date at all, fails for no
\* reason but a storage failure, and when it returns Ok it has saved and
\* returned a record of streak 1 with today as last_signin_date and today
\* alone as history.
NeitherTodayNorDayBefore(date_string, today) ==
    \/ parse_from_str(date_string) = None
    \/ /\ parse_from_str(date_string) # None
       /\ \/ DateBefore(parse_from_str(today)[1], parse_from_str(date_string)[1])
          \/ DateBefore(parse_from_str(date_string)[1],
                        pred_date(parse_from_str(today)[1]))

StartedAnew(record, today) ==
    /\ record.streak = 1
    /\ record.last_signin_date = today
    /\ record.signin_history = <<today>>

C14_GapResets ==
    ( /\ last.op = "signin"
      /\ last.saved # None
      /\ NeitherTodayNorDayBefore(RecordOf(last.saved).last_signin_date, last.today) )
        => /\ last.result \in {Ok, ErrIo}
           /\ last.result = Ok
                  => /\ signin_data[last.machine] = last.ret
                     /\ StartedAnew(last.ret[1], last.today)
                     /\ last.ret[1].name = last.arg
           /\ last.result # Ok => signin_data[last.machine] = last.saved

\* Reached: signin returned Ok with a new streak of 1 on a record whose
\* last_signin_date is no date and whose history held two dates.
C14_Witness ==
    /\ last.op = "signin"
    /\ last.result = Ok
    /\ last.saved # None
    /\ parse_from_str(RecordOf(last.saved).last_signin_date) = None
    /\ Len(RecordOf(last.saved).signin_history) = 2
    /\ RecordOf(last.saved).streak = 2
    /\ StartedAnew(RecordOf(signin_data[last.machine]), last.today)

\* ------------------------------------------------------------------ C15
\* C15: a signin that finds a record whose last_signin_date is today leaves
\* data.json as it found it, whatever name it is called with, and when it
\* returns Ok it returns that record; it fails for no reason but a storage
\* failure.
C15_SameDayNoOp ==
    ( /\ last.op = "signin"
      /\ last.saved # None
      /\ RecordOf(last.saved).last_signin_date = last.today )
        => /\ signin_data[last.machine] = last.saved
           /\ last.result \in {Ok, ErrIo}
           /\ last.result = Ok => last.ret = last.saved

\* ------------------------------------------------------------------ C16
\* C16: from no record, after any signins and signouts at any days of the
\* clock, a record that exists has its last_signin_date in its history and no
\* date in its history later than it.
C16_LastDateIsLatest ==
    \A m \in Local :
        signin_data[m] # None
            => LET record == RecordOf(signin_data[m])
               IN /\ Contains(record.signin_history, record.last_signin_date)
                  /\ \A i \in 1 .. Len(record.signin_history) :
                         /\ parse_from_str(record.signin_history[i]) # None
                         /\ ~DateBefore(parse_from_str(record.last_signin_date)[1],
                                        parse_from_str(record.signin_history[i])[1])

\* Reached: a signin returned Ok on a record whose last_signin_date was later
\* than the today it read (the clock had moved back) and whose history held
\* two dates.
C16_Witness ==
    /\ last.op = "signin"
    /\ last.result = Ok
    /\ last.saved # None
    /\ Len(RecordOf(last.saved).signin_history) = 2
    /\ DateBefore(parse_from_str(last.today)[1],
                  parse_from_str(RecordOf(last.saved).last_signin_date)[1])
    /\ signin_data[last.machine] = last.ret

\* ------------------------------------------------------------------ C17
\* C17: from no record, after any signins and signouts, a record that exists
\* has a streak of at least 1 that is the length of its history, and its
\* history is that many consecutive calendar days, each once, the last of
\* them its last_signin_date.
C17_StreakIsRunInHistory ==
    \A m \in Local :
        signin_data[m] # None
            => LET record == RecordOf(signin_data[m])
                   history == record.signin_history
               IN /\ record.streak >= 1
                  /\ record.streak = Len(history)
                  /\ history[Len(history)] = record.last_signin_date
                  /\ \A i \in 1 .. Len(history) - 1 :
                         parse_from_str(history[i + 1])[1]
                             = succ_date(parse_from_str(history[i])[1])
                  /\ \A i, j \in 1 .. Len(history) : i # j => history[i] # history[j]

\* Reached: a streak of 3 ending on the first of March, the day after the
\* 29th of February.
C17_Witness ==
    /\ signin_data["A"] # None
    /\ RecordOf(signin_data["A"]).streak = 3
    /\ RecordOf(signin_data["A"]).last_signin_date = <<2024, 3, 1>>
    /\ last.op = "signin"
    /\ last.result = Ok

\* ------------------------------------------------------------------ C18
\* C18: a signin that has saved the new record and then meets a failure of a
\* side effect (load_email_config fails, an address is invalid, the SMTP host
\* cannot be reached, fetch_hitokoto fails) returns Ok with the record it
\* saved.
C18_SideEffectsNeverFailSignin ==
    (last.op = "signin" /\ last.failure # "none")
        => /\ last.result = Ok
           /\ last.ret = signin_data[last.machine]

\* ------------------------------------------------------------------ C19
\* C19: after a signin that returned an error data.json is what the call
\* found; after one that returned Ok data.json is the record it returned.
C19_SigninAllOrNothing ==
    last.op = "signin"
        => /\ last.result # Ok => signin_data[last.machine] = last.saved
           /\ last.result = Ok => signin_data[last.machine] = last.ret

\* ------------------------------------------------------------------ C21
\* C21: no ledger operation takes a lock: when a call saves after another call
\* of the same device has saved in between its load and its own save, the file
\* then holds exactly the record this call made from what it had loaded (the
\* later save wins), and no request the other call had saved in between is in
\* it (of two concurrent successful create_request calls one request is lost).
C21_LastWriterWins ==
    [][\A p \in Threads :
          (calls[p].pc = "loaded" /\ calls'[p] = Idle) =>
              \E t \in Frozen :
                  LET out == ThreadHandler(calls[p].config[1], calls[p].op,
                                           calls[p].arg, nextUuid, t)
                  IN IF out.write = None
                     THEN stored' = stored
                     ELSE /\ stored'["A"] = Some(out.write[1])
                          /\ calls[p].missed \cap RequestIdsOf(stored'["A"][1]) = {}
      ]_vars

\* Two create_request calls overlapped and both returned Ok; the file holds the
\* request of the later save alone.
C21_Witness ==
    /\ last.op = "send_supervision_request"
    /\ last.result = Ok
    /\ last.missed # {}
    /\ Len(RequestsOf(stored["A"])) = 1
    /\ RequestsOf(stored["A"])[1] = last.ret[1]

\* ------------------------------------------------------------------ C23
\* C23: when two calls make the first access of a device at the same time, the
\* device_id is generated once: whenever two calls hold the record their
\* load_or_create_device_config returned, both hold the same device_id, and it
\* is the device_id of the file.
C23_ConcurrentFirstAccessOneId ==
    \A p \in Threads, q \in Threads :
        (calls[p].pc = "loaded" /\ calls[q].pc = "loaded") =>
            /\ calls[p].config[1].device.device_id = calls[q].config[1].device.device_id
            /\ stored["A"] # None
            /\ stored["A"][1].device.device_id = calls[p].config[1].device.device_id

\* ------------------------------------------------------------------ C28
\* The positions of the ledger's requests that are Pending and addressed to
\* the device itself.
PendingForMe(file) ==
    {j \in 1 .. Len(RequestsOf(file)) :
        /\ RequestsOf(file)[j].target_device_id = file[1].device.device_id
        /\ RequestsOf(file)[j].status = Pending}

\* The list holds the requests at these positions of the ledger, each once,
\* and nothing else.
ListsExactly(list, requests, positions) ==
    /\ Len(list) = Cardinality(positions)
    /\ \A i \in 1 .. Len(list) : \E j \in positions : list[i] = requests[j]
    /\ \A j \in positions : \E i \in 1 .. Len(list) : list[i] = requests[j]

\* C28: get_pending_supervision_requests returns exactly the requests of the
\* ledger whose target_device_id is the device's own id and whose status is
\* Pending, no other and none missing, and leaves the requests and the
\* relationships as they were; it fails only when the record cannot be loaded.
C28_ListPendingFor ==
    [][Ran("get_pending_supervision_requests") =>
          /\ RequestsOf(stored'["A"]) = RequestsOf(stored["A"])
          /\ RelationshipsOf(stored'["A"]) = RelationshipsOf(stored["A"])
          /\ last'.result \in {Ok, ErrIo}
          /\ last'.result = Ok =>
                 /\ last'.ret # None
                 /\ ListsExactly(last'.ret[1], RequestsOf(stored'["A"]),
                                 PendingForMe(stored'["A"]))
      ]_vars

\* The view returned a request while the ledger holds another Pending request,
\* addressed to some other device, that it left out.
C28_Witness ==
    /\ last.op = "get_pending_supervision_requests"
    /\ last.result = Ok
    /\ Len(last.ret[1]) >= 1
    /\ \E j \in 1 .. Len(RequestsOf(stored["A"])) :
           /\ RequestsOf(stored["A"])[j].status = Pending
           /\ RequestsOf(stored["A"])[j].target_device_id
                  # stored["A"][1].device.device_id

\* ------------------------------------------------------------------ C29
\* The positions of the relationships in which the device itself is the supervisor.
SupervisedByMe(file) ==
    {j \in 1 .. Len(RelationshipsOf(file)) :
        RelationshipsOf(file)[j].supervisor_device_id = file[1].device.device_id}

\* The status is the one of this relationship, joined with the check-in record.
StatusOf(status, relationship, data, today) ==
    /\ status.device_id = relationship.supervised_device_id
    /\ status.device_name = relationship.supervised_device_name
    /\ status.last_sync_at = relationship.last_sync_at
    /\ status.last_signin_date = (IF data = None THEN <<>> ELSE data[1].last_signin_date)
    /\ status.streak = (IF data = None THEN 0 ELSE data[1].streak)
    /\ status.is_signed_in_today = (data # None /\ data[1].last_signin_date = today)

\* C29: get_supervised_devices returns one status per relationship whose
\* supervisor_device_id is the device's own id and none for any other; each
\* status carries the relationship's supervised id, name and last_sync_at and
\* the check-in record's last date and streak (the empty date and 0 when there
\* is no record), and is_signed_in_today is true exactly when there is a record
\* whose last date is today.
C29_SupervisedDevicesFor ==
    (last.op = "get_supervised_devices" /\ last.result = Ok) =>
        LET statuses == last.ret[1]
            rels == RelationshipsOf(stored["A"])
            mine == SupervisedByMe(stored["A"])
        IN /\ Len(statuses) = Cardinality(mine)
           /\ \A i \in 1 .. Len(statuses) :
                  \E j \in mine : StatusOf(statuses[i], rels[j], signin_data["A"],
                                            last.today)
           /\ \A j \in mine :
                  \E i \in 1 .. Len(statuses) :
                      StatusOf(statuses[i], rels[j], signin_data["A"], last.today)

\* The view returned a status of a device checked in today while the ledger
\* holds a relationship of another supervisor, for which it returned none.
C29_Witness ==
    /\ last.op = "get_supervised_devices"
    /\ last.result = Ok
    /\ Len(last.ret[1]) = 1
    /\ last.ret[1][1].is_signed_in_today
    /\ last.ret[1][1].streak = 2
    /\ Len(RelationshipsOf(stored["A"])) = 2

\* ------------------------------------------------------------------ C30
\* The positions of the requests the device itself sent that are Pending.
PendingOfMine(file) ==
    {j \in 1 .. Len(RequestsOf(file)) :
        /\ RequestsOf(file)[j].supervisor_device_id = file[1].device.device_id
        /\ RequestsOf(file)[j].status = Pending}

\* C30: get_supervisor_status returns as pending_requests exactly the requests
\* whose supervisor_device_id is the device's own id and whose status is
\* Pending; a request is out of that set as soon as an accept, reject or
\* cancel of it returns Ok, and a request that is out of it is never in it again.
C30_SupervisorStatusPending ==
    [][/\ (Ran("get_supervisor_status") /\ last'.result = Ok) =>
              /\ last'.ret[1].supervisor_device_id = stored'["A"][1].device.device_id
              /\ ListsExactly(last'.ret[1].pending_requests, RequestsOf(stored'["A"]),
                              PendingOfMine(stored'["A"]))
       /\ (/\ last'.op \in {"accept_supervision_request", "reject_supervision_request",
                             "cancel_supervision_request"}
           /\ last'.result = Ok) =>
              \A j \in PendingOfMine(stored'["A"]) :
                  RequestsOf(stored'["A"])[j].request_id # last'.arg
       /\ stored["A"] # None =>
              \A j \in PendingOfMine(stored'["A"]) : j \in PendingOfMine(stored["A"])
                                                       \/ j > Len(RequestsOf(stored["A"]))
      ]_vars

\* The view listed a Pending request of the device while the ledger holds
\* another request of the device, no longer Pending, which it left out.
C30_Witness ==
    /\ last.op = "get_supervisor_status"
    /\ last.result = Ok
    /\ Len(last.ret[1].pending_requests) = 1
    /\ \E j \in 1 .. Len(RequestsOf(stored["A"])) :
           /\ RequestsOf(stored["A"])[j].supervisor_device_id
                  = stored["A"][1].device.device_id
           /\ RequestsOf(stored["A"])[j].status # Pending

\* ------------------------------------------------------------------ C22
\* C22: in a sequential run the device_id generated when the configuration
\* record was first created never changes afterwards, and the record is never
\* deleted: no step of get_device_config, set_device_mode, update_device_name,
\* set_device_imei, of a ledger operation or of a view, whether it returns Ok
\* or an error, leaves a file without a record or with another device_id.
C22_DeviceIdImmutable ==
    [][\A m \in Machines :
          stored[m] # None =>
              /\ stored'[m] # None
              /\ stored'[m][1].device.device_id = stored[m][1].device.device_id
      ]_vars

\* The device was renamed, given an IMEI and made a relationship, and still
\* has the first id handed out.
C22_Witness ==
    /\ stored["A"] # None
    /\ stored["A"][1].device.device_id = 1
    /\ stored["A"][1].device.device_name \in NameInputs
    /\ stored["A"][1].device.imei # None
    /\ stored["A"][1].device.mode = Supervisor
    /\ RelationshipsOf(stored["A"]) # <<>>
    /\ last.op = "get_supervisor_status"

\* ------------------------------------------------------------------ C24
\* The step is an accept, reject or cancel of this request that returned Ok.
Settles(request_id) ==
    /\ last'.op \in {"accept_supervision_request", "reject_supervision_request",
                     "cancel_supervision_request"}
    /\ last'.result = Ok
    /\ last'.arg = request_id

\* C24: no ledger operation moves a request back to Pending, and a request is
\* Pending only from its creation until the first accept, reject or cancel of
\* it that returns Ok: requests keep their place in the ledger, a request that
\* is not Pending is not Pending after any step, a new request is Pending, a
\* request is not Pending after a step that settles it, and only such a step
\* ends its being Pending.
C24_NeverBackToPending ==
    [][LET before == RequestsOf(stored["A"])
           after == RequestsOf(stored'["A"])
       IN /\ Len(after) >= Len(before)
          /\ \A j \in 1 .. Len(before) :
                 /\ after[j].request_id = before[j].request_id
                 /\ before[j].status # Pending => after[j].status # Pending
                 /\ (before[j].status = Pending /\ after[j].status # Pending)
                        => Settles(before[j].request_id)
          /\ \A j \in Len(before) + 1 .. Len(after) : after[j].status = Pending
          /\ \A j \in 1 .. Len(after) :
                 Settles(after[j].request_id) => after[j].status # Pending
      ]_vars

\* A request that had been cancelled was then rejected, while another request
\* of the ledger is still Pending.
C24_Witness ==
    /\ last.op = "reject_supervision_request"
    /\ last.result = Ok
    /\ \E j \in 1 .. Len(RequestsOf(stored["A"])) :
           /\ RequestsOf(stored["A"])[j].request_id = last.arg
           /\ RequestsOf(stored["A"])[j].status = Rejected
    /\ \E j \in 1 .. Len(RequestsOf(stored["A"])) :
           RequestsOf(stored["A"])[j].status = Pending

\* ------------------------------------------------------------------ C27
RelationshipIdsOf(file) ==
    {RelationshipsOf(file)[j].relationship_id : j \in 1 .. Len(RelationshipsOf(file))}

\* C27: relationships are created by accept_request alone and at most once per
\* request: a step that puts a relationship into the ledger is an accept that
\* returned Ok and puts in that one relationship, every accept that returned
\* Ok did so, no request_id was accepted twice, and the relationships ever
\* created (one per Ok accept) are never more than the requests ever created
\* (requests are never deleted: those of the ledger).
C27_RelationshipsOnlyByAccept ==
    [][LET new == RelationshipIdsOf(stored'["A"]) \ RelationshipIdsOf(stored["A"])
           accepted == Ran("accept_supervision_request") /\ last'.result = Ok
                       /\ accepts' # accepts
       IN /\ new # {} => accepted
          /\ accepted => /\ new = {last'.ret[1].relationship_id}
                         /\ Len(RelationshipsOf(stored'["A"]))
                                = Len(RelationshipsOf(stored["A"])) + 1
          /\ \A i \in 1 .. Len(accepts'), j \in 1 .. Len(accepts') :
                 accepts'[i] = accepts'[j] => i = j
          /\ Len(accepts') <= Len(RequestsOf(stored'["A"]))
      ]_vars

\* Every request of a full ledger was accepted once, one of the relationships
\* has been removed since, and a further accept was refused.
C27_Witness ==
    /\ Len(accepts) = MaxRequests
    /\ Len(RelationshipsOf(stored["A"])) < MaxRequests
    /\ last.op = "accept_supervision_request"
    /\ last.result = ErrNotFoundOrProcessed
    /\ last.arg \in {accepts[i] : i \in 1 .. Len(accepts)}

\* ------------------------------------------------------------------ C25
\* C25: the streak calculator is a pure function of the previous record, the
\* today it is given and the name: on the record data.json holds, for every
\* name and every today, two evaluations give the same record whatever the
\* clock reads while each of them runs (the day today was read on, or the next).
C25_StreakCalculatorIsPure ==
    \A name \in SigninNames, t \in Days :
        \A now1 \in LaterReadings(t), now2 \in LaterReadings(t) :
            calculate_signin_data(signin_data["A"], name, get_today_date(t), now1)
                = calculate_signin_data(signin_data["A"], name, get_today_date(t), now2)

\* ------------------------------------------------------------------ C26
\* C26: in signin (of commands.rs and of lib.rs) the e-mail notification is
\* attempted only after the new record has been computed and saved: after a
\* signin that reached the notification, data.json holds a record stamped
\* with the today of the call; and a signin whose save_data failed returned
\* the storage error, reached no notification and sent nothing.
C26_NotificationAfterSave ==
    last.op = "signin" =>
        /\ last.attempted =>
               /\ signin_data["A"] # None
               /\ signin_data["A"][1].last_signin_date = last.today
               /\ last.io = "ok"
        /\ last.sent => last.attempted
        /\ last.io = "save_err" =>
               /\ last.result = ErrIo
               /\ ~last.attempted
               /\ ~last.sent
               /\ signin_data["A"] = last.saved

\* A signin on a later day than the record's failed at save_data: the record
\* is the old one and no notification was reached.
C26_Witness ==
    /\ last.op = "signin"
    /\ last.io = "save_err"
    /\ last.result = ErrIo
    /\ signin_data["A"] # None
    /\ signin_data["A"][1].last_signin_date # last.today

\* ------------------------------------------------------------------ C31
\* The instants the clock can show within one acceptance: the two
\* Utc::now() of create_relationship_from_request are separate readings.
Instants == {0, 1}

AcceptAtInstants == AcceptSupervisionRequestOn(Local, NoFailure, Instants)

NextInstants ==
    \/ SetModeWithoutFailure
    \/ SendWithoutFailure
    \/ AcceptAtInstants
    \/ CancelWithoutFailure
    \/ RemoveWithoutFailure

SpecInstants == Init /\ [][NextInstants]_vars

\* C31: a relationship created by accepting a request has established_at
\* equal to last_sync_at (both the one instant of the acceptance), hence
\* last_sync_at >= established_at for every relationship of every reachable
\* state.
C31_EstablishedAtIsLastSyncAt ==
    \A i \in DOMAIN RelationshipsOf(stored["A"]) :
        LET rel == RelationshipsOf(stored["A"])[i]
        IN /\ rel.last_sync_at = rel.established_at
           /\ rel.last_sync_at >= rel.established_at

\* ------------------------------------------------------------------ C32
IdentitySetters == {"set_device_mode", "update_device_name", "set_device_imei"}

\* The field of the identity an identity command writes, as the command
\* leaves it when it succeeds.
SetField(device, op, arg) ==
    CASE op = "set_device_mode"    -> [device EXCEPT !.mode = arg]
      [] op = "update_device_name" -> [device EXCEPT !.device_name = arg]
      [] op = "set_device_imei"    -> [device EXCEPT !.imei = Some(arg)]

\* C32: set_device_mode, update_device_name and set_device_imei each change
\* only their own field of an existing configuration record: device_id,
\* created_at and the other identity fields stay, and every request and
\* relationship stays as it was, the names stored in them included (they are
\* snapshots and do not follow a rename); a failing call changes nothing.
C32_SettersChangeOnlyTheirField ==
    [][\A op \in IdentitySetters :
          Ran(op) /\ stored["A"] # None =>
              /\ stored'["A"] # None
              /\ RequestsOf(stored'["A"]) = RequestsOf(stored["A"])
              /\ RelationshipsOf(stored'["A"]) = RelationshipsOf(stored["A"])
              /\ stored'["A"][1].device =
                     IF last'.result = Ok
                     THEN SetField(stored["A"][1].device, op, last'.arg)
                     ELSE stored["A"][1].device
      ]_vars

\* The device was renamed after it had sent a request: the request still
\* carries the name the device had when it sent it.
C32_Witness ==
    /\ last.op = "update_device_name"
    /\ last.result = Ok
    /\ \E i \in DOMAIN RequestsOf(stored["A"]) :
           /\ RequestsOf(stored["A"])[i].supervisor_device_name = DefaultDeviceName(1)
           /\ stored["A"][1].device.device_name = last.arg
           /\ last.arg # DefaultDeviceName(1)

\* ------------------------------------------------------------------ C33
\* The request of the given id in the ledger of a file, as a set (ids are
\* unique, so the set has at most one element).
RequestOfId(file, request_id) ==
    {RequestsOf(file)[i] : i \in Positions(RequestsOf(file), request_id)}

\* C33: in a device's own ledger every stored request has
\* supervisor_device_id equal to the device's own device_id, so
\* accept_supervision_request and reject_supervision_request succeed only
\* for a request whose target_device_id equals its own supervisor_device_id.
C33_StoredRequestsAreOwn ==
    \A m \in Machines :
        /\ \A i \in DOMAIN RequestsOf(stored[m]) :
               RequestsOf(stored[m])[i].supervisor_device_id =
                   stored[m][1].device.device_id
        /\ ( /\ last.machine = m
             /\ last.op \in {"accept_supervision_request", "reject_supervision_request"}
             /\ last.result = Ok )
           => /\ RequestOfId(stored[m], last.arg) # {}
              /\ \A r \in RequestOfId(stored[m], last.arg) :
                     /\ r.target_device_id = r.supervisor_device_id
                     /\ r.target_device_id = stored[m][1].device.device_id

\* A request the device sent to itself was accepted, next to a request that
\* it sent to another device.
C33_Witness ==
    /\ last.op = "accept_supervision_request"
    /\ last.result = Ok
    /\ \E r \in RequestOfId(stored["A"], last.arg) :
           r.target_device_id = r.supervisor_device_id
    /\ \E i \in DOMAIN RequestsOf(stored["A"]) :
           RequestsOf(stored["A"])[i].target_device_id #
               stored["A"][1].device.device_id

\* ------------------------------------------------------------------ C34
\* C34: in every reachable state of a device's ledger, every stored
\* relationship has supervisor_device_id and supervised_device_id both equal
\* to the device's own device_id: the local commands only ever establish a
\* device supervising itself.
C34_RelationshipsAreSelfSupervision ==
    \A m \in Machines :
        \A i \in DOMAIN RelationshipsOf(stored[m]) :
            LET rel == RelationshipsOf(stored[m])[i]
            IN /\ rel.supervisor_device_id = stored[m][1].device.device_id
               /\ rel.supervised_device_id = stored[m][1].device.device_id

\* An acceptance has just stored and returned a relationship of the device
\* with itself.
C34_Witness ==
    /\ last.op = "accept_supervision_request"
    /\ last.result = Ok
    /\ last.ret # None
    /\ last.ret[1].supervisor_device_id = last.ret[1].supervised_device_id
    /\ \E i \in DOMAIN RelationshipsOf(stored["A"]) :
           RelationshipsOf(stored["A"])[i] = last.ret[1]

\* ------------------------------------------------------------------ SpecOverlap
\* accept_supervision_request and get_supervisor_status run by the two
\* threads of device A, each storage call of theirs being a separate step,
\* next to set_device_mode and send_supervision_request run in one piece.
\* accepts keeps what each successful accept returned.
SendWithinIds == nextUuid <= MaxIds /\ SendWithoutFailure

\* accept_supervision_request up to the return of load_or_create_device_config's
\* read (or its finding no file).
AcceptBegins ==
    \E p \in Threads :
        \E request_id \in RequestIdsOf(IF stored["A"] = None THEN DeviceConfigNew(0, 0)
                                       ELSE stored["A"][1]) \cup {UnknownId} :
            /\ calls[p] = Idle
            /\ nextUuid <= MaxIds
            /\ calls' = [calls EXCEPT
                            ![p] = [pc |-> IF stored["A"] = None THEN "creating"
                                           ELSE "loaded",
                                    op |-> "accept_supervision_request",
                                    arg |-> request_id,
                                    config |-> stored["A"], missed |-> {}]]
            /\ UNCHANGED <<stored, nextUuid, last, signin_data, checkins, accepts>>

\* The rest of accept_supervision_request: find_pending_request and
\* validate_request_target on the record the call loaded, the new
\* relationship, and save_device_config of the whole record.
AcceptFinishes ==
    \E p \in Threads, t \in Frozen :
        /\ calls[p].pc = "loaded"
        /\ calls[p].op = "accept_supervision_request"
        /\ LET out == accept_supervision_request(loaded_config(p, "A"), calls[p].arg,
                                                 nextUuid, t, t)
           IN /\ stored' = [stored EXCEPT
                               !["A"] = IF out.write = None THEN @
                                        ELSE save_device_config(out.write[1])]
              /\ nextUuid' = nextUuid + out.uuids
              /\ last' = [op |-> calls[p].op, machine |-> "A", arg |-> calls[p].arg,
                          result |-> out.result, ret |-> out.ret]
              /\ accepts' = IF out.result = Ok
                            THEN Append(accepts, [request_id |-> calls[p].arg,
                                                  relationship |-> out.ret[1]])
                            ELSE accepts
        /\ calls' = [calls EXCEPT ![p] = Idle]
        /\ UNCHANGED <<signin_data, checkins>>

\* get_supervisor_status up to the return of its own
\* load_or_create_device_config's read (or its finding no file).
StatusBegins ==
    \E p \in Threads :
        /\ calls[p] = Idle
        /\ calls' = [calls EXCEPT
                        ![p] = [pc |-> IF stored["A"] = None THEN "creating"
                                       ELSE "loaded",
                                op |-> "get_supervisor_status", arg |-> UnknownId,
                                config |-> stored["A"], missed |-> {}]]
        /\ UNCHANGED <<stored, nextUuid, last, signin_data, checkins, accepts>>

\* let supervised_devices = get_supervised_devices()?: the callee loads
\* device_config.json and data.json itself and reads the clock, and lists the
\* relationships of the record it loaded.
StatusListsDevices ==
    \E p \in Threads, now \in Frozen :
        /\ calls[p].pc = "loaded"
        /\ calls[p].op = "get_supervisor_status"
        /\ LET out == get_supervised_devices(stored["A"][1], signin_data["A"],
                                             get_today_date(now))
           IN calls' = [calls EXCEPT
                           ![p] = [pc |-> "listed", op |-> calls[p].op,
                                   arg |-> calls[p].arg, config |-> calls[p].config,
                                   missed |-> calls[p].missed,
                                   reloaded |-> stored["A"],
                                   supervised_devices |-> out.ret[1]]]
        /\ UNCHANGED <<stored, nextUuid, last, signin_data, checkins, accepts>>

\* The rest of get_supervisor_status: the filter over the requests of the
\* record loaded first, and the SupervisorStatus made of it and of the list
\* get_supervised_devices returned.  last keeps the two records loaded.
StatusFinishes ==
    \E p \in Threads, now \in Frozen :
        /\ calls[p].pc = "listed"
        /\ LET out == get_supervisor_status(loaded_config(p, "A"), signin_data["A"],
                                            get_today_date(now))
           IN last' = [op |-> calls[p].op, machine |-> "A", arg |-> calls[p].arg,
                       result |-> Ok,
                       ret |-> Some([out.ret[1] EXCEPT
                                        !.supervised_devices =
                                            calls[p].supervised_devices]),
                       loaded |-> calls[p].config,
                       reloaded |-> calls[p].reloaded,
                       today |-> get_today_date(now)]
        /\ calls' = [calls EXCEPT ![p] = Idle]
        /\ UNCHANGED <<stored, nextUuid, signin_data, checkins, accepts>>

NextOverlap ==
    \/ SetModeWithoutFailure
    \/ SendWithinIds
    \/ AcceptBegins
    \/ ThreadCreates
    \/ AcceptFinishes
    \/ StatusBegins
    \/ StatusListsDevices
    \/ StatusFinishes

SpecOverlap == Init /\ [][NextOverlap]_vars

\* ------------------------------------------------------------------ C35
RelationshipSet(file) ==
    {RelationshipsOf(file)[i] : i \in DOMAIN RelationshipsOf(file)}

SameDaySignin ==
    /\ last.op = "signin"
    /\ last.io # "load_err"
    /\ last.saved # None
    /\ last.saved[1].last_signin_date = last.today

\* The last command was a signin that got past load_data and found no record
\* of today.
FirstSigninOfDay ==
    /\ last.op = "signin"
    /\ last.io # "load_err"
    /\ last.saved = None \/ last.saved[1].last_signin_date # last.today

\* C36: a signin made when the stored record's last_signin_date already
\* equals today writes nothing to storage (data.json stays as it was and no
\* failing write can fail the call) and attempts no e-mail notification; only
\* the first check-in of a day saves a record and reaches the notification.
C36_SameDaySigninIsSilent ==
    /\ SameDaySignin =>
           /\ signin_data["A"] = last.saved
           /\ last.result = Ok
           /\ ~last.attempted
           /\ ~last.sent
    /\ (FirstSigninOfDay /\ last.io = "ok") =>
           /\ signin_data["A"] # None
           /\ signin_data["A"][1].last_signin_date = last.today
           /\ last.attempted

\* ------------------------------------------------------------------ C37
\* C37: the two implementations of the check-in computation agree: for every
\* previous record (or none), name and today, the record calculate_signin_data
\* of commands.rs produces (same-day rule before the continue rule) is the
\* record the inline logic of lib.rs signin produces (continue rule before
\* the same-day rule), both run at the same moment.
C37_CalculatorsAgree ==
    \A name \in SigninNames, t \in Days :
        \A now \in LaterReadings(t) :
            calculate_signin_data(signin_data["A"], name, get_today_date(t), now)
                = lib_signin_data(signin_data["A"], name, get_today_date(t), now).new_data

\* ------------------------------------------------------------------ SpecSignout
\* signin and signout of commands.rs on a device that also has a
\* configuration record and a ledger.
NextSignout ==
    \/ SetModeWithoutFailure
    \/ SendWithinIds
    \/ SigninOnFirstDays
    \/ SignoutCommand

SpecSignout == Init /\ [][NextSignout]_vars

\* ------------------------------------------------------------------ C38
\* C38: signout deletes the check-in record and succeeds also when no record
\* exists, leaving things as they were (twice is the same as once); the
\* first signin after a signout yields streak 1 and the history {today},
\* whatever the streak was before the signout; and signout leaves the device
\* configuration and the ledger unchanged.
C38_SignoutDeletesRecordOnly ==
    [][/\ Ran("signout") =>
              /\ stored' = stored
              /\ nextUuid' = nextUuid
              /\ last'.result = Ok => signin_data'["A"] = None
              /\ last'.result # Ok => signin_data' = signin_data
              /\ (signin_data["A"] = None /\ last'.io # "load_err") =>
                     last'.result = Ok
       /\ (Ran("signin") /\ signin_data["A"] = None /\ last'.io = "ok") =>
              /\ last'.result = Ok
              /\ last'.ret = signin_data'["A"]
              /\ signin_data'["A"] = Some([name |-> last'.arg,
                                           last_signin_date |-> last'.today,
                                           streak |-> 1,
                                           signin_history |-> <<last'.today>>])
      ]_vars

\* A signout has just deleted a record with a streak of two days or more, on
\* a device whose ledger holds a request.
C38_Witness ==
    /\ last.op = "signout"
    /\ last.result = Ok
    /\ last.saved # None
    /\ last.saved[1].streak >= 2
    /\ signin_data["A"] = None
    /\ RequestsOf(stored["A"]) # <<>>

\* ------------------------------------------------------------------ C39
\* The SupervisorStatus get_supervisor_status makes of one version of the
\* configuration record.
StatusOfVersion(file, today) ==
    get_supervisor_status(file[1], signin_data["A"], today).ret[1]

\* C39: get_supervisor_status returns a consistent snapshot: its
\* supervised_devices and its pending_requests are computed from the same
\* version of the configuration record, also when another operation saves
\* the record while get_supervisor_status is running.
C39_StatusIsOneSnapshot ==
    (last.op = "get_supervisor_status" /\ last.result = Ok) =>
        \/ last.ret[1] = StatusOfVersion(last.loaded, last.today)
        \/ last.ret[1] = StatusOfVersion(last.reloaded, last.today)

====
